---- MODULE Spec2Model ----
(***************************************************************************)
(* The release planner of versio: the plan builder (src/src/mono.rs) and   *)
(* the release command (src/src/commands.rs).                              *)
(*                                                                         *)
(*   Spec         Mono::build_plan: the PR walk, handle_deps,              *)
(*                sort_and_dedup, build.                                   *)
(*   SpecDeps     PlanBuilder::handle_deps on three projects.              *)
(*   SpecRelease  release, Mono::commit, resume, abort.                    *)
(*   SpecCommands SpecRelease and the set command behind sanity_check.     *)
(*   SpecSort     PlanBuilder::sort_and_dedup on drawn changelogs.         *)
(*   SpecOldTags  find_old_tags: the tag index of the commit line.         *)
(*   SpecLastCommits  Mono::find_last_commits over the commit line.        *)
(*   SpecResume   SpecRelease with the pause-file damaged between commands.*)
(***************************************************************************)
EXTENDS Integers, Sequences, FiniteSets, TLC

\* ------------------------------------------------------------------ bounds

\* Pull requests in the stream that build_plan walks.
MaxPrs == 2

\* Commits in the whole stream.
MaxCommits == 3

\* ------------------------------------------------------------- value sets

\* Every project id a configuration (current or historical) may name.
ProjectIds == {1, 2, 3}

\* The projects of the historical configurations of the walked commits.
HistoryIds == {1, 2}

Paths == {"x"}

\* The conventional-commit kinds of the walked commits; "-" is a message that
\* has no conventional form.
Kinds == {"feat", "fix", "-"}

\* The kinds a size map names.
AllKinds == Kinds \cup {"feat!", "chore"}

NoValue == "null"

\* Option: None and Some(x).
None == <<>>
Some(x) == <<x>>
Unwrap(o) == o[1]

\* ------------------------------------------------------------------- Size

Sizes == {"Empty", "None", "Patch", "Minor", "Major", "Failure"}

\* The derived order of the Size enum.
SizeRank(s) ==
  CASE s = "Empty" -> 0
    [] s = "None" -> 1
    [] s = "Patch" -> 2
    [] s = "Minor" -> 3
    [] s = "Major" -> 4
    [] s = "Failure" -> 5

SizeMax(a, b) == IF SizeRank(a) >= SizeRank(b) THEN a ELSE b

is_failure(s) == s = "Failure"

RECURSIVE MaxOfSizes(_)
\* Iterator::max over a sequence of sizes: NoValue when it is empty.
MaxOfSizes(ss) ==
  IF ss = <<>> THEN NoValue
  ELSE LET rest == MaxOfSizes(Tail(ss))
       IN IF rest = NoValue THEN Head(ss) ELSE SizeMax(Head(ss), rest)

\* The size maps a project may carry: the kind "-" is a failure, or is let
\* through as None.
StrictSizes ==
  [k \in AllKinds |->
     CASE k = "feat" -> "Minor"
       [] k = "fix" -> "Patch"
       [] k = "feat!" -> "Major"
       [] k = "chore" -> "None"
       [] OTHER -> "Failure"]
LenientSizes == [StrictSizes EXCEPT !["-"] = "None"]
SizeTables == {StrictSizes, LenientSizes}

\* Project::size: the size of a commit kind under a project's size map.
ProjectSize(table, kind) == table[kind]

\* Depends::size(): the mappers of a dependency edge.
Mappers == {"match", "minor_to_patch"}

\* SizeMapper::convert.
Convert(mapper, s) ==
  IF mapper = "minor_to_patch" /\ s = "Minor" THEN "Patch" ELSE s

ProjectName(id) == <<"alpha", "beta", "gamma">>[id]

\* ------------------------------------------------------------ small tools

Range(f) == {f[i] : i \in DOMAIN f}

\* The orders in which a hash map may yield the keys S.
Orders(S) ==
  {o \in [1..Cardinality(S) -> S] : \A i, j \in DOMAIN o : o[i] = o[j] => i = j}

\* A map without one key.
Without(f, k) == [x \in DOMAIN f \ {k} |-> f[x]]

EmptyMap == [x \in {} |-> NoValue]

\* ------------------------------------------------------------------ state

VARIABLES
  pc,              \* the position of the running command
  current,         \* the current configuration file: projects, size maps, depends
  walked,          \* the numbers of the PRs build_plan has taken from the stream
  commits_walked,  \* how many commits build_plan has taken from the stream
  on_pr_sizes,     \* PlanBuilder.on_pr_sizes
  on_ineffective,  \* PlanBuilder.on_ineffective
  on_commit,       \* PlanBuilder.on_commit
  files_left,      \* the files of on_commit that build_plan has yet to visit
  prev,            \* PlanBuilder.prev: the Slicer
  incrs,           \* PlanBuilder.incrs / Plan.incrs
  ineffective,     \* PlanBuilder.ineffective / Plan.ineffective
  chain_writes,    \* PlanBuilder.chain_writes / Plan.chain_writes
  failed_commits,  \* PlanBuilder.info.failed_commits
  queue,           \* handle_deps: queue
  dependents,      \* handle_deps: dependents
  dequeued,        \* handle_deps: the ids popped from the queue, in the order popped
  dry,             \* release: the engagement
  locktags,        \* release: the locktags flag
  pause,           \* release: the pause flag
  branch,          \* what check_branch read: the repository's and the config's branch
  curt_vers,       \* release: the current version read for each project
  prev_vers,       \* release: the prev version read for each project
  final_sizes,     \* release: final_sizes
  output,          \* release: the line written for each project
  next,            \* Mono.next: the pending StateWrite
  tree,            \* the files written to the working tree
  vcs_commits,     \* the VCS commits made
  tags,            \* the tags created
  pause_file,      \* the file .versio-paused
  commit_state,    \* resume: the CommitState loaded from the pause-file
  error,           \* the error the command ended with
  line,            \* the in-line commits from HEAD back to the prev-tag, in walk order
  repo_tags,       \* the tags of the repository: their names and peeled oids
  by_proj_oid,     \* find_old_tags: by_proj_oid
  old_current,     \* find_old_tags: current / OldTags.current
  old_prev,        \* find_old_tags: prev / OldTags.prev
  on_line_commit,  \* LastCommitBuilder.on_line_commit
  last_commits     \* LastCommitBuilder.last_commits

planVars ==
  <<pc, current, walked, commits_walked, on_pr_sizes, on_ineffective, on_commit, files_left, prev,
    incrs, ineffective, chain_writes, failed_commits, queue, dependents, dequeued>>

planVarsButPc ==
  <<current, walked, commits_walked, on_pr_sizes, on_ineffective, on_commit, files_left,
    prev, incrs, ineffective, chain_writes, failed_commits, queue, dependents, dequeued>>

relVars ==
  <<dry, locktags, pause, branch, curt_vers, prev_vers, final_sizes, output, next, tree,
    vcs_commits, tags, pause_file, commit_state, error>>

lineVars ==
  <<line, repo_tags, by_proj_oid, old_current, old_prev, on_line_commit, last_commits>>

vars == <<planVars, relVars, lineVars>>

\* The ids of the current configuration's projects.
CurrentIds == Range(current.projects)

\* A lookup that finds the first project of the configuration alone.
get_project_first(id) == id = Head(current.projects)

\* ConfigFile::get_project.
get_project(id) == id \in CurrentIds

\* --------------------------------------------------------- inputs: commits

\* A historical configuration: the paths each project covered at a commit.
Snapshots == [HistoryIds -> SUBSET Paths]

\* A commit is identified by its content: its kind, the files it touches and
\* the configuration file it carries.
\* (A commit that touches no file is taken with one snapshot: start_file, the
\* only reader of the snapshot, does not run for it.)
Commits ==
  { c \in { [id |-> <<k, f, s>>, kind |-> k, files |-> f, snapshot |-> s] :
              k \in Kinds, f \in SUBSET Paths, s \in Snapshots } :
      c.files = {} => \A p \in HistoryIds : c.snapshot[p] = {} }

\* The order in which Commit::files yields the files of a commit.
FileSeq(fs) == CHOOSE o \in Orders(fs) : TRUE

\* The pull requests of the stream: the discovery order follows the number.
FullPr(n) == [number |-> n, discovery_order |-> n - 1]

\* ------------------------------------------------------------ PlanBuilder

\* LoggedPr::capture.
LoggedPr_capture(pr) ==
  [number |-> pr.number, discovery_order |-> pr.discovery_order, commits |-> <<>>]

\* LoggedCommit::new.
LoggedCommit_new(oid, size) ==
  [oid |-> oid, size |-> size, applies |-> FALSE, duplicate |-> FALSE]

\* LoggedCommit::included.
included(c) == c.applies /\ ~c.duplicate

\* Changelog::add_entry and Changelog::add_dep.
PrEntry(pr, size) == [tag |-> "Pr", pr |-> pr, size |-> size]
DepEntry(id, name) == [tag |-> "Dep", id |-> id, name |-> name]

\* HashMap::entry(id).or_insert((Size::Empty, Changelog::empty())).
OrInsert(m, id) ==
  IF id \in DOMAIN m THEN m ELSE m @@ (id :> [size |-> "Empty", changelog |-> <<>>])

\* PlanBuilder::create.
PlanBuilderCreate ==
  /\ walked = {}
  /\ commits_walked = 0
  /\ on_pr_sizes = EmptyMap
  /\ on_ineffective = None
  /\ on_commit = None
  /\ files_left = <<>>
  /\ prev = None
  /\ incrs = EmptyMap
  /\ ineffective = <<>>
  /\ chain_writes = <<>>
  /\ failed_commits = {}
  /\ queue = <<>>
  /\ dependents = EmptyMap
  /\ dequeued = <<>>

\* build_plan takes the next PR of the stream: PlanBuilder::start_pr.
start_pr ==
  /\ pc = "prs"
  /\ \E n \in (1..MaxPrs) \ walked :
       /\ walked' = walked \cup {n}
       /\ on_pr_sizes' = [p \in CurrentIds |-> LoggedPr_capture(FullPr(n))]
       /\ on_ineffective' = Some(LoggedPr_capture(FullPr(n)))
  /\ pc' = "commits"
  /\ UNCHANGED <<current, commits_walked, on_commit, files_left, prev, incrs,
                 ineffective, chain_writes, failed_commits, queue, dependents, dequeued>>
  /\ UNCHANGED <<relVars, lineVars>>

\* PlanBuilder::start_commit.
start_commit ==
  /\ pc = "commits"
  /\ commits_walked < MaxCommits
  /\ commits_walked' = commits_walked + 1
  /\ \E commit \in Commits :
       /\ \A p \in DOMAIN on_pr_sizes :
            \A c \in Range(on_pr_sizes[p].commits) : c.oid # commit.id
       /\ prev' = Some(commit.snapshot)
       /\ failed_commits' =
            IF \E p \in DOMAIN on_pr_sizes :
                 get_project(p) /\ is_failure(ProjectSize(current.sizes[p], commit.kind))
            THEN failed_commits \cup {commit.id}
            ELSE failed_commits
       /\ on_pr_sizes' =
            [p \in DOMAIN on_pr_sizes |->
               IF get_project(p)
               THEN [on_pr_sizes[p] EXCEPT
                       !.commits = Append(@, LoggedCommit_new(commit.id,
                                      ProjectSize(current.sizes[p], commit.kind)))]
               ELSE on_pr_sizes[p]]
       /\ on_commit' = Some(commit)
       /\ files_left' = FileSeq(commit.files)
  /\ pc' = "files"
  /\ UNCHANGED <<current, walked, on_ineffective, incrs, ineffective, chain_writes,
                 queue, dependents, dequeued>>
  /\ UNCHANGED <<relVars, lineVars>>

\* Project::does_cover, of a project of the sliced configuration.
does_cover(file, id, path) == path \in file[id]

\* The index of the first commit of a LoggedPr with the given oid.
FindCommit(commits, oid) ==
  CHOOSE i \in DOMAIN commits :
    /\ commits[i].oid = oid
    /\ \A j \in 1..(i - 1) : commits[j].oid # oid

\* The loop of start_file run over the current configuration instead of the
\* sliced one: the projects that cover the path today.
CoveringToday(file, ids, path) ==
  {p \in ids : p \in DOMAIN current.covers /\ path \in current.covers[p]}

\* The loop of start_file over the projects of the sliced configuration: the
\* projects, among those of on_pr_sizes, whose commit is made to apply.
Covering(file, ids, path) ==
  {p \in ids : p \in DOMAIN file /\ does_cover(file, p, path)}

\* PlanBuilder::start_file, followed by PlanBuilder::finish_file.
start_file ==
  /\ pc = "files"
  /\ files_left # <<>>
  /\ on_commit # None
  /\ prev # None
  /\ LET path == Head(files_left)
         commit_id == Unwrap(on_commit).id
         file == Unwrap(prev)
     IN on_pr_sizes' =
          [p \in DOMAIN on_pr_sizes |->
             IF p \in Covering(file, DOMAIN on_pr_sizes, path)
             THEN [on_pr_sizes[p] EXCEPT
                     !.commits[FindCommit(on_pr_sizes[p].commits, commit_id)].applies = TRUE]
             ELSE on_pr_sizes[p]]
  /\ files_left' = Tail(files_left)
  /\ UNCHANGED <<pc, current, walked, commits_walked, on_ineffective, on_commit, prev, incrs,
                 ineffective, chain_writes, failed_commits, queue, dependents, dequeued>>
  /\ UNCHANGED <<relVars, lineVars>>

\* PlanBuilder::finish_commit.
finish_commit ==
  /\ pc = "files"
  /\ files_left = <<>>
  /\ pc' = "commits"
  /\ UNCHANGED <<current, walked, commits_walked, on_pr_sizes, on_ineffective, on_commit, files_left,
                 prev, incrs, ineffective, chain_writes, failed_commits, queue,
                 dependents, dequeued>>
  /\ UNCHANGED <<relVars, lineVars>>

\* The size of a provisional LoggedPr with the filter on applies left out: the
\* max over all of its commits.
PrSizeUnfiltered(logged_pr) ==
  MaxOfSizes([i \in DOMAIN logged_pr.commits |-> logged_pr.commits[i].size])

\* The size of a provisional LoggedPr with max() left out: the size of its
\* first applying commit.
PrSizeFirst(logged_pr) ==
  LET app == SelectSeq(logged_pr.commits, LAMBDA c : c.applies)
  IN IF app = <<>> THEN NoValue ELSE app[1].size

\* The size of a provisional LoggedPr: the max over its applying commits.
PrSize(logged_pr) ==
  LET app == SelectSeq(logged_pr.commits, LAMBDA c : c.applies)
  IN MaxOfSizes([i \in DOMAIN app |-> app[i].size])

\* PlanBuilder::finish_pr.
finish_pr ==
  /\ pc = "commits"
  /\ on_ineffective # None
  /\ LET found == \E p \in DOMAIN on_pr_sizes : PrSize(on_pr_sizes[p]) # NoValue
         base == [p \in DOMAIN incrs \cup DOMAIN on_pr_sizes |->
                    IF p \in DOMAIN incrs THEN incrs[p]
                    ELSE [size |-> "Empty", changelog |-> <<>>]]
     IN /\ incrs' =
             [p \in DOMAIN base |->
                IF p \in DOMAIN on_pr_sizes /\ PrSize(on_pr_sizes[p]) # NoValue
                THEN [size |-> SizeMax(base[p].size, PrSize(on_pr_sizes[p])),
                      changelog |-> Append(base[p].changelog,
                                      PrEntry(on_pr_sizes[p], PrSize(on_pr_sizes[p])))]
                ELSE base[p]]
        /\ ineffective' =
             IF found THEN ineffective ELSE Append(ineffective, Unwrap(on_ineffective))
  /\ on_pr_sizes' = EmptyMap
  /\ on_ineffective' = None
  /\ pc' = "prs"
  /\ UNCHANGED <<current, walked, commits_walked, on_commit, files_left, prev, chain_writes,
                 failed_commits, queue, dependents, dequeued>>
  /\ UNCHANGED <<relVars, lineVars>>

\* ------------------------------------------------------------ handle_deps

\* handle_deps, to the head of its while loop: the reverse adjacency and the
\* queue seeded with the projects without depends. build_plan calls it when
\* the PR stream has ended.
handle_deps_start ==
  /\ pc = "prs"
  /\ dependents' =
       [u \in {x \in ProjectIds : \E d \in CurrentIds : x \in DOMAIN current.depends[d]} |->
          [d \in {y \in CurrentIds : u \in DOMAIN current.depends[y]} |->
             current.depends[d][u]]]
  /\ queue' = SelectSeq(current.projects, LAMBDA p : DOMAIN current.depends[p] = {})
  /\ dequeued' = <<>>
  /\ pc' = "deps"
  /\ UNCHANGED <<current, walked, commits_walked, on_pr_sizes, on_ineffective, on_commit,
                 files_left, prev, incrs, ineffective, chain_writes, failed_commits>>
  /\ UNCHANGED <<relVars, lineVars>>

\* The body of the for loop with the test before queue.push_back left out: the
\* dependent is pushed on every edge.
ProcessDepd_eager(st, id, size, depd_id, dep) ==
  LET deps1 == [st.dependents EXCEPT ![id] = Without(@, depd_id)]
      converted_size == Convert(dep, size)
      entry == OrInsert(st.incrs, depd_id)
      incrs1 ==
        IF SizeRank(converted_size) > SizeRank("Empty")
        THEN [entry EXCEPT
                ![depd_id] = [size |-> SizeMax(@.size, converted_size),
                              changelog |-> Append(@.changelog,
                                              DepEntry(id, ProjectName(id)))]]
        ELSE st.incrs
  IN [dependents |-> deps1,
      incrs |-> incrs1,
      chain_writes |-> Append(st.chain_writes, <<id, depd_id>>),
      queue |-> Append(st.queue, depd_id)]

\* The body of the for loop with max() left out: the converted size of the
\* edge replaces the size of the dependent.
ProcessDepd_last_wins(st, id, size, depd_id, dep) ==
  LET deps1 == [st.dependents EXCEPT ![id] = Without(@, depd_id)]
      converted_size == Convert(dep, size)
      entry == OrInsert(st.incrs, depd_id)
      incrs1 ==
        IF SizeRank(converted_size) > SizeRank("Empty")
        THEN [entry EXCEPT
                ![depd_id] = [size |-> converted_size,
                              changelog |-> Append(@.changelog,
                                              DepEntry(id, ProjectName(id)))]]
        ELSE st.incrs
  IN [dependents |-> deps1,
      incrs |-> incrs1,
      chain_writes |-> Append(st.chain_writes, <<id, depd_id>>),
      queue |-> IF \A k \in DOMAIN deps1 : depd_id \notin DOMAIN deps1[k]
                THEN Append(st.queue, depd_id)
                ELSE st.queue]

\* The body of the for loop over the dependents of the popped project id.
ProcessDepd(st, id, size, depd_id, dep) ==
  LET deps1 == [st.dependents EXCEPT ![id] = Without(@, depd_id)]
      converted_size == Convert(dep, size)
      entry == OrInsert(st.incrs, depd_id)
      incrs1 ==
        IF SizeRank(converted_size) > SizeRank("Empty")
        THEN [entry EXCEPT
                ![depd_id] = [size |-> SizeMax(@.size, converted_size),
                              changelog |-> Append(@.changelog,
                                              DepEntry(id, ProjectName(id)))]]
        ELSE st.incrs
  IN [dependents |-> deps1,
      incrs |-> incrs1,
      chain_writes |-> Append(st.chain_writes, <<id, depd_id>>),
      queue |-> IF \A k \in DOMAIN deps1 : depd_id \notin DOMAIN deps1[k]
                THEN Append(st.queue, depd_id)
                ELSE st.queue]

RECURSIVE ProcessDepds(_, _, _, _, _)
\* The for loop over the (cloned) dependents depds, in the order the hash map
\* yields them.
ProcessDepds(st, id, size, depds, order) ==
  IF order = <<>> THEN st
  ELSE ProcessDepds(ProcessDepd(st, id, size, Head(order), depds[Head(order)]),
                    id, size, depds, Tail(order))

\* One turn of the while loop of handle_deps: pop a project and walk its
\* dependents.
handle_deps_pop ==
  /\ pc = "deps"
  /\ queue # <<>>
  /\ LET id == Head(queue)
         size == IF id \in DOMAIN incrs THEN incrs[id].size ELSE "Empty"
         depds == IF id \in DOMAIN dependents THEN dependents[id] ELSE EmptyMap
         st == [dependents |-> dependents, incrs |-> incrs,
                chain_writes |-> chain_writes, queue |-> Tail(queue)]
     IN \E order \in Orders(DOMAIN depds) :
          LET out == ProcessDepds(st, id, size, depds, order)
          IN /\ dependents' = out.dependents
             /\ incrs' = out.incrs
             /\ chain_writes' = out.chain_writes
             /\ queue' = out.queue
             /\ dequeued' = Append(dequeued, id)
  /\ UNCHANGED <<pc, current, walked, commits_walked, on_pr_sizes, on_ineffective,
                 on_commit, files_left, prev, ineffective, failed_commits>>
  /\ UNCHANGED <<relVars, lineVars>>

\* The queue is empty: handle_deps returns Ok(()).
handle_deps_return ==
  /\ pc = "deps"
  /\ queue = <<>>
  /\ pc' = "sort"
  /\ UNCHANGED <<current, walked, commits_walked, on_pr_sizes, on_ineffective, on_commit,
                 files_left, prev, incrs, ineffective, chain_writes, failed_commits,
                 queue, dependents, dequeued>>
  /\ UNCHANGED <<relVars, lineVars>>

\* --------------------------------------------------------- sort_and_dedup

RECURSIVE IdString(_)
\* ProjectId::to_string: the decimal digits of the id.
IdString(n) == IF n < 10 THEN <<n>> ELSE IdString(n \div 10) \o <<n % 10>>

RECURSIVE StrLess(_, _)
\* str::cmp is Less: the lexicographic order.
StrLess(a, b) ==
  IF b = <<>> THEN FALSE
  ELSE IF a = <<>> THEN TRUE
  ELSE IF Head(a) # Head(b) THEN Head(a) < Head(b)
  ELSE StrLess(Tail(a), Tail(b))

\* The comparator with the ids of two Dep entries compared as numbers.
EntryLess_numeric(entry1, entry2) ==
  IF entry1.tag = "Pr"
  THEN entry2.tag = "Pr" /\ entry2.pr.discovery_order < entry1.pr.discovery_order
  ELSE IF entry2.tag = "Dep"
       THEN entry1.id < entry2.id
       ELSE TRUE

\* The comparator of sort_and_dedup yields Ordering::Less.
EntryLess(entry1, entry2) ==
  IF entry1.tag = "Pr"
  THEN entry2.tag = "Pr" /\ entry2.pr.discovery_order < entry1.pr.discovery_order
  ELSE IF entry2.tag = "Dep"
       THEN StrLess(IdString(entry1.id), IdString(entry2.id))
       ELSE TRUE

\* e goes after the elements that are not greater than it.
InsertSorted(sorted, e) ==
  LET k == Cardinality({i \in DOMAIN sorted : ~EntryLess(e, sorted[i])})
  IN SubSeq(sorted, 1, k) \o <<e>> \o SubSeq(sorted, k + 1, Len(sorted))

RECURSIVE SortEntriesFrom(_, _)
SortEntriesFrom(sorted, rest) ==
  IF rest = <<>> THEN sorted
  ELSE SortEntriesFrom(InsertSorted(sorted, Head(rest)), Tail(rest))

\* slice::sort_by with the comparator of sort_and_dedup: a stable sort.
SortEntries(entries) == SortEntriesFrom(<<>>, entries)

\* The loop over the commits of one PR with the test of seen_commits left out:
\* no commit is marked.
MarkCommitsUnmarked(done, commits, seen_commits) ==
  [commits |-> done \o commits,
   seen |-> seen_commits \cup {commits[i].oid : i \in DOMAIN commits}]

RECURSIVE MarkCommits(_, _, _)
\* The loop over the commits of one PR: the commits marked, and the oids seen.
MarkCommits(done, commits, seen_commits) ==
  IF commits = <<>> THEN [commits |-> done, seen |-> seen_commits]
  ELSE LET c == Head(commits)
           marked == IF c.oid \in seen_commits THEN [c EXCEPT !.duplicate = TRUE] ELSE c
       IN MarkCommits(Append(done, marked), Tail(commits), seen_commits \cup {c.oid})

\* The aggregated size of a PR with the filter on applies alone: duplicates
\* count.
IncludedSize_applying(commits) ==
  LET inc == SelectSeq(commits, LAMBDA c : c.applies)
      m == MaxOfSizes([i \in DOMAIN inc |-> inc[i].size])
  IN IF m = NoValue THEN "Empty" ELSE m

\* The aggregated size of a PR: the max over its included commits.
IncludedSize(commits) ==
  LET inc == SelectSeq(commits, included)
      m == MaxOfSizes([i \in DOMAIN inc |-> inc[i].size])
  IN IF m = NoValue THEN "Empty" ELSE m

RECURSIVE MarkEntries(_, _, _)
\* The loop over the sorted entries of one changelog.
MarkEntries(done, entries, seen_commits) ==
  IF entries = <<>> THEN done
  ELSE LET e == Head(entries)
       IN IF e.tag = "Pr"
          THEN LET r == MarkCommits(<<>>, e.pr.commits, seen_commits)
               IN MarkEntries(
                    Append(done, [tag |-> "Pr",
                                  pr |-> [e.pr EXCEPT !.commits = r.commits],
                                  size |-> IncludedSize(r.commits)]),
                    Tail(entries), r.seen)
          ELSE MarkEntries(Append(done, e), Tail(entries), seen_commits)

\* sort_and_dedup on one changelog.
SortAndDedup(changelog) == MarkEntries(<<>>, SortEntries(changelog), {})

\* PlanBuilder::sort_and_dedup.
sort_and_dedup ==
  /\ pc = "sort"
  /\ incrs' = [p \in DOMAIN incrs |->
                 [incrs[p] EXCEPT !.changelog = SortAndDedup(@)]]
  /\ pc' = "built"
  /\ UNCHANGED <<current, walked, commits_walked, on_pr_sizes, on_ineffective, on_commit,
                 files_left, prev, ineffective, chain_writes, failed_commits, queue,
                 dependents, dequeued>>
  /\ UNCHANGED <<relVars, lineVars>>

\* ---------------------------------------------------------------- release

\* The version strings the version sources hold: [major, minor, patch].
\* (The current version of a project is never below its prev version.)
CurtVersions == {<<1, 0, 0>>, <<1, 0, 1>>, <<1, 1, 0>>}
PrevVersions == {<<1, 0, 0>>}

Engagements == {"Dry", "Changelog", "Full"}

\* Size::less_than(v1, v2): v1 is below v2 in the order of the three parts.
less_than(v1, v2) ==
  \/ v1[1] < v2[1]
  \/ v1[1] = v2[1] /\ v1[2] < v2[2]
  \/ v1[1] = v2[1] /\ v1[2] = v2[2] /\ v1[3] < v2[3]

\* Size::apply.
apply(size, v) ==
  CASE size = "Major" -> <<v[1] + 1, 0, 0>>
    [] size = "Minor" -> <<v[1], v[2] + 1, 0>>
    [] size = "Patch" -> <<v[1], v[2], v[3] + 1>>
    [] size = "None" -> v

\* Project::verify_restrictions: the major of the version is one of tag_majors.
verify_restrictions(id, vers) ==
  current.tag_majors[id] = None \/ vers[1] \in Unwrap(current.tag_majors[id])

\* What Repo::branch_name and Config::branch may yield.
BranchNames ==
  { [ok |-> FALSE, name |-> None], [ok |-> TRUE, name |-> None],
    [ok |-> TRUE, name |-> Some("main")], [ok |-> TRUE, name |-> Some("dev")] }
BranchConfigs == {None, Some("main")}

\* The reads of check_branch: a config that names no branch is taken with a
\* repository on main.
BranchReads ==
  { b \in [name : BranchNames, cfg : BranchConfigs] :
      b.cfg = None => b.name = [ok |-> TRUE, name |-> Some("main")] }

\* Mono::check_branch without its test of a repository on no branch: the
\* names are compared when there are two, and Ok(()) otherwise.
check_branch_named_only(branch_name, cfg) ==
  IF branch_name.ok /\ branch_name.name # None /\ cfg # None
     /\ Unwrap(branch_name.name) # Unwrap(cfg)
  THEN Some(<<Unwrap(cfg), Unwrap(branch_name.name)>>)
  ELSE None

\* Mono::check_branch: None for Ok(()), Some(<<should, is>>) for the Err.
check_branch(branch_name, cfg) ==
  IF branch_name.ok
  THEN IF branch_name.name # None
       THEN IF cfg # None
            THEN IF Unwrap(branch_name.name) # Unwrap(cfg)
                 THEN Some(<<Unwrap(cfg), Unwrap(branch_name.name)>>)
                 ELSE None
            ELSE None
       ELSE IF cfg # None THEN Some(<<Unwrap(cfg), "((No branch))">>) ELSE None
  ELSE None

\* StateWrite::new.
StateWrite_new ==
  [set |-> EmptyMap, forward |-> EmptyMap, changelog |-> EmptyMap, chain |-> {}]

\* No release has run: the state of Mono::open and of an untouched repository.
NoRelease ==
  /\ dry = "Dry"
  /\ locktags = FALSE
  /\ pause = FALSE
  /\ branch = None
  /\ curt_vers = EmptyMap
  /\ prev_vers = EmptyMap
  /\ final_sizes = EmptyMap
  /\ output = EmptyMap
  /\ next = StateWrite_new
  /\ tree = {}
  /\ vcs_commits = <<>>
  /\ tags = {}
  /\ pause_file = None
  /\ commit_state = None
  /\ error = None

\* No walk of the in-line commits has run.
NoLine ==
  /\ line = <<>>
  /\ repo_tags = {}
  /\ by_proj_oid = EmptyMap
  /\ old_current = EmptyMap
  /\ old_prev = EmptyMap
  /\ on_line_commit = None
  /\ last_commits = EmptyMap

\* release, from the plan to the loop over plan.incrs: the branch check and the
\* empty plan.
release_begin ==
  /\ pc = "built"
  /\ \E b \in BranchReads :
       /\ branch' = Some(b)
       /\ IF check_branch(b.name, b.cfg) # None
          THEN pc' = "error" /\ error' = Some("branch-mismatch")
          ELSE IF DOMAIN incrs = {}
               THEN pc' = "done" /\ error' = error
               ELSE pc' = "projects" /\ error' = error
  /\ UNCHANGED <<planVarsButPc, lineVars>>
  /\ UNCHANGED <<dry, locktags, pause, curt_vers, prev_vers, final_sizes, output, next,
                 tree, vcs_commits, tags, pause_file, commit_state>>

\* The body of the loop of release with its tests as arguments: whether the
\* restrictions are verified on the target, whether they are verified on the
\* current version, and the locktags flag it reads.
ReleaseProjectWith(id, size, curt, prv, nxt, verify_target, verify_curt, lock) ==
  IF size = "Empty"
  THEN [err |-> None, new_vers |-> curt, line |-> "no_change", next |-> nxt]
  ELSE IF prv # None
  THEN IF is_failure(size)
       THEN [err |-> Some("conventional"), new_vers |-> curt, line |-> "", next |-> nxt]
       ELSE LET target == apply(size, Unwrap(prv))
            IN IF less_than(curt, target)
               THEN IF verify_target /\ ~verify_restrictions(id, target)
                    THEN [err |-> Some("restriction"), new_vers |-> curt, line |-> "",
                          next |-> nxt]
                    ELSE [err |-> None, new_vers |-> target, line |-> "changed",
                          next |-> [nxt EXCEPT !.set = (id :> target) @@ @]]
               ELSE IF verify_curt /\ ~verify_restrictions(id, curt)
                    THEN [err |-> Some("restriction"), new_vers |-> curt, line |-> "",
                          next |-> nxt]
                    ELSE IF lock
                         THEN [err |-> None, new_vers |-> target, line |-> "no_change",
                               next |-> nxt]
                         ELSE [err |-> None, new_vers |-> target, line |-> "forward",
                               next |-> [nxt EXCEPT !.forward = (id :> curt) @@ @]]
  ELSE IF verify_curt /\ ~verify_restrictions(id, curt)
       THEN [err |-> Some("restriction"), new_vers |-> curt, line |-> "", next |-> nxt]
       ELSE IF lock
            THEN [err |-> None, new_vers |-> curt, line |-> "no_change", next |-> nxt]
            ELSE [err |-> None, new_vers |-> curt, line |-> "new",
                  next |-> [nxt EXCEPT !.forward = (id :> curt) @@ @]]

\* The body of the loop without verify_restrictions on the target of a bump.
ReleaseProject_bump_unverified(id, size, curt, prv, nxt) ==
  ReleaseProjectWith(id, size, curt, prv, nxt, FALSE, TRUE, locktags)

\* The body of the loop without the tests of locktags.
ReleaseProject_tags_unlocked(id, size, curt, prv, nxt) ==
  ReleaseProjectWith(id, size, curt, prv, nxt, TRUE, TRUE, FALSE)

\* The body of the loop without verify_restrictions on the current version.
ReleaseProject_curt_unverified(id, size, curt, prv, nxt) ==
  ReleaseProjectWith(id, size, curt, prv, nxt, TRUE, FALSE, locktags)

\* The body of the loop of release for one project: the error it bails with,
\* or its version, its output line and its writes to Mono.next.
ReleaseProject(id, size, curt, prv, nxt) ==
  IF size = "Empty"
  THEN [err |-> None, new_vers |-> curt, line |-> "no_change", next |-> nxt]
  ELSE IF prv # None
  THEN IF is_failure(size)
       THEN [err |-> Some("conventional"), new_vers |-> curt, line |-> "", next |-> nxt]
       ELSE LET target == apply(size, Unwrap(prv))
            IN IF less_than(curt, target)
               THEN IF ~verify_restrictions(id, target)
                    THEN [err |-> Some("restriction"), new_vers |-> curt, line |-> "",
                          next |-> nxt]
                    ELSE [err |-> None, new_vers |-> target, line |-> "changed",
                          next |-> [nxt EXCEPT !.set = (id :> target) @@ @]]
               ELSE IF ~verify_restrictions(id, curt)
                    THEN [err |-> Some("restriction"), new_vers |-> curt, line |-> "",
                          next |-> nxt]
                    ELSE IF locktags
                         THEN [err |-> None, new_vers |-> target, line |-> "no_change",
                               next |-> nxt]
                         ELSE [err |-> None, new_vers |-> target, line |-> "forward",
                               next |-> [nxt EXCEPT !.forward = (id :> curt) @@ @]]
  ELSE IF ~verify_restrictions(id, curt)
       THEN [err |-> Some("restriction"), new_vers |-> curt, line |-> "", next |-> nxt]
       ELSE IF locktags
            THEN [err |-> None, new_vers |-> curt, line |-> "no_change", next |-> nxt]
            ELSE [err |-> None, new_vers |-> curt, line |-> "new",
                  next |-> [nxt EXCEPT !.forward = (id :> curt) @@ @]]

\* One turn of the loop of release over plan.incrs, in hash-map order; the
\* versions are read from the current and the prev configuration.
release_project ==
  /\ pc = "projects"
  /\ \E id \in DOMAIN incrs \ DOMAIN final_sizes :
     \E curt \in CurtVersions, prv \in {None} \cup {Some(v) : v \in PrevVersions} :
       LET r == ReleaseProject(id, incrs[id].size, curt, prv, next)
       IN /\ curt_vers' = (id :> curt) @@ curt_vers
          /\ prev_vers' = (id :> prv) @@ prev_vers
          /\ IF r.err # None
             THEN /\ pc' = "error"
                  /\ error' = r.err
                  /\ UNCHANGED <<next, final_sizes, output>>
             ELSE /\ pc' = pc
                  /\ error' = error
                  /\ output' = (id :> r.line) @@ output
                  \* Mono::write_changelog
                  /\ next' = [r.next EXCEPT !.changelog = (id :> r.new_vers) @@ @]
                  /\ final_sizes' = (id :> r.new_vers) @@ final_sizes
  /\ UNCHANGED <<planVarsButPc, lineVars>>
  /\ UNCHANGED <<dry, locktags, pause, branch, tree, vcs_commits, tags, pause_file, commit_state>>

\* Mono::write_chains: the error it fails with, and Mono.next with the writes
\* of the dependents' references.
write_chains(ids, vers, nxt) ==
  IF \E i \in DOMAIN ids :
       \/ ~get_project(ids[i][2])
       \/ ids[i][1] \notin DOMAIN current.depends[ids[i][2]]
       \/ ids[i][1] \notin DOMAIN vers
  THEN [err |-> Some("chain"), next |-> nxt]
  ELSE [err |-> None,
        next |-> [nxt EXCEPT !.chain =
                    @ \cup {[dependent |-> ids[i][2], on |-> ids[i][1],
                             value |-> vers[ids[i][1]]] : i \in DOMAIN ids}]]

\* The files a StateWrite holds: version sources, changelogs, dependents'
\* references.
FileEdits(nxt) ==
  {[file |-> "version", project |-> p, on |-> 0, value |-> nxt.set[p]] :
     p \in DOMAIN nxt.set}
  \cup {[file |-> "changelog", project |-> p, on |-> 0, value |-> nxt.changelog[p]] :
          p \in DOMAIN nxt.changelog}
  \cup {[file |-> "depends", project |-> c.dependent, on |-> c.on, value |-> c.value] :
          c \in nxt.chain}

ChangelogEdits(nxt) == {e \in FileEdits(nxt) : e.file = "changelog"}

\* The tags a StateWrite holds: a new tag for a written version, a forward
\* tag for a forwarded one.
NewTags(nxt) ==
  {[project |-> p, vers |-> nxt.set[p], forward |-> FALSE] : p \in DOMAIN nxt.set}
  \cup {[project |-> p, vers |-> nxt.forward[p], forward |-> TRUE] :
          p \in DOMAIN nxt.forward}

PauseFileName == ".versio-paused"

\* The pause-file as a file of the working tree.
PauseFileEntry == [file |-> PauseFileName, project |-> 0, on |-> 0, value |-> <<0, 0, 0>>]

\* serde_json of a CommitState: an object as its list of members, and back.
Serialize(state) ==
  << <<"new_tags", state.new_tags>>, <<"advance_prev", state.advance_prev>> >>
Deserialize(json) ==
  [new_tags |-> json[1][2], advance_prev |-> json[2][2]]

\* Whether serde_json::from_reader yields a CommitState: every member of the
\* object is there.
Deserializable(json) ==
  /\ Len(json) = 2
  /\ json[1][1] = "new_tags"
  /\ json[2][1] = "advance_prev"

\* What is left of a pause-file that was cut short: none or some of its
\* members, never all.
DamagedFiles(json) == {SubSeq(json, 1, k) : k \in 0 .. Len(json) - 1}

\* CommitState::resume: the VCS commit of everything modified in the working
\* tree, then the tags.
CommitState_resume(state, repo) ==
  [repo EXCEPT
     !.vcs_commits =
        Append(@, [files |-> repo.tree \cup
                               (IF repo.pause_file # None THEN {PauseFileEntry} ELSE {}),
                   advance_prev |-> state.advance_prev]),
     !.tags = @ \cup state.new_tags]

\* StateWrite::commit: the pending files are written; the commit state is
\* put in the pause-file when pause is set, and is committed otherwise.
StateWrite_commit(nxt, advance_prev, pause_arg, repo) ==
  LET written == [repo EXCEPT !.tree = @ \cup FileEdits(nxt)]
      state == [new_tags |-> NewTags(nxt), advance_prev |-> advance_prev]
  IN IF pause_arg
     THEN [written EXCEPT !.pause_file = Some(Serialize(state))]
     ELSE CommitState_resume(state, written)

\* StateWrite::write_changelogs.
StateWrite_write_changelogs(nxt, repo) ==
  [repo EXCEPT !.tree = @ \cup ChangelogEdits(nxt)]

\* The repository as the commands see it.
Repo == [tree |-> tree, vcs_commits |-> vcs_commits, tags |-> tags,
         pause_file |-> pause_file]

\* Mono::commit with the pause argument dropped from the CommitArgs.
Mono_commit_unpaused(nxt, advance_prev, pause_arg, repo) ==
  StateWrite_commit(nxt, advance_prev, FALSE, repo)

\* Mono::commit.
Mono_commit(nxt, advance_prev, pause_arg, repo) ==
  StateWrite_commit(nxt, advance_prev, pause_arg, repo)

\* release after the loop with the Dry arm of the engagement match falling
\* through to the Changelog arm.
release_finish_dry_writes ==
  /\ pc = "projects"
  /\ DOMAIN final_sizes = DOMAIN incrs
  /\ LET w == write_chains(chain_writes, final_sizes, next)
     IN IF w.err # None
        THEN /\ pc' = "error"
             /\ error' = w.err
             /\ UNCHANGED <<next, tree, vcs_commits, tags, pause_file>>
        ELSE /\ next' = w.next
             /\ error' = error
             /\ LET repo ==
                      CASE dry = "Full" -> Mono_commit(w.next, TRUE, pause, Repo)
                        [] dry = "Changelog" -> StateWrite_write_changelogs(w.next, Repo)
                        [] dry = "Dry" -> StateWrite_write_changelogs(w.next, Repo)
                IN /\ tree' = repo.tree
                   /\ vcs_commits' = repo.vcs_commits
                   /\ tags' = repo.tags
                   /\ pause_file' = repo.pause_file
             /\ pc' = CASE dry = "Full" -> IF pause THEN "paused" ELSE "committed"
                        [] dry = "Changelog" -> "changelogs"
                        [] dry = "Dry" -> "dry"
  /\ UNCHANGED <<planVarsButPc, lineVars>>
  /\ UNCHANGED <<dry, locktags, pause, branch, curt_vers, prev_vers, final_sizes, output,
                 commit_state>>

\* release after the loop: write_chains, then the engagement.
release_finish ==
  /\ pc = "projects"
  /\ DOMAIN final_sizes = DOMAIN incrs
  /\ LET w == write_chains(chain_writes, final_sizes, next)
     IN IF w.err # None
        THEN /\ pc' = "error"
             /\ error' = w.err
             /\ UNCHANGED <<next, tree, vcs_commits, tags, pause_file>>
        ELSE /\ next' = w.next
             /\ error' = error
             /\ LET repo ==
                      CASE dry = "Full" -> Mono_commit(w.next, TRUE, pause, Repo)
                        [] dry = "Changelog" -> StateWrite_write_changelogs(w.next, Repo)
                        [] dry = "Dry" -> Repo
                IN /\ tree' = repo.tree
                   /\ vcs_commits' = repo.vcs_commits
                   /\ tags' = repo.tags
                   /\ pause_file' = repo.pause_file
             /\ pc' = CASE dry = "Full" -> IF pause THEN "paused" ELSE "committed"
                        [] dry = "Changelog" -> "changelogs"
                        [] dry = "Dry" -> "dry"
  /\ UNCHANGED <<planVarsButPc, lineVars>>
  /\ UNCHANGED <<dry, locktags, pause, branch, curt_vers, prev_vers, final_sizes, output,
                 commit_state>>

\* No command is running.
Ended ==
  pc \in {"done", "committed", "paused", "changelogs", "dry", "error", "resumed",
          "aborted", "set"}

\* resume with the removal of the pause-file put off until after the commit:
\* the file is opened and parsed, and is still in the working tree when
\* CommitState::resume runs.
resume_load_keeps_file ==
  /\ Ended
  /\ IF pause_file = None
     THEN /\ pc' = "error"
          /\ error' = Some("missing-pause-file")
          /\ UNCHANGED commit_state
     ELSE IF ~Deserializable(Unwrap(pause_file))
     THEN /\ pc' = "error"
          /\ error' = Some("deserialize")
          /\ UNCHANGED commit_state
     ELSE /\ commit_state' = Some(Deserialize(Unwrap(pause_file)))
          /\ pc' = "resuming"
          /\ error' = None
  /\ UNCHANGED <<planVarsButPc, lineVars>>
  /\ UNCHANGED <<dry, locktags, pause, branch, curt_vers, prev_vers, final_sizes, output,
                 next, tree, vcs_commits, tags, pause_file>>

\* resume with the pause-file removed as soon as it is opened, before it is
\* parsed: a file that does not parse is gone all the same.
resume_load_removes_first ==
  /\ Ended
  /\ IF pause_file = None
     THEN /\ pc' = "error"
          /\ error' = Some("missing-pause-file")
          /\ UNCHANGED <<commit_state, pause_file>>
     ELSE IF ~Deserializable(Unwrap(pause_file))
     THEN /\ pc' = "error"
          /\ error' = Some("deserialize")
          /\ pause_file' = None
          /\ UNCHANGED commit_state
     ELSE /\ commit_state' = Some(Deserialize(Unwrap(pause_file)))
          /\ pause_file' = None
          /\ pc' = "resuming"
          /\ error' = None
  /\ UNCHANGED <<planVarsButPc, lineVars>>
  /\ UNCHANGED <<dry, locktags, pause, branch, curt_vers, prev_vers, final_sizes, output,
                 next, tree, vcs_commits, tags>>

\* resume, to the removal of the pause-file: the file is opened, parsed and
\* removed.
resume_load ==
  /\ Ended
  /\ IF pause_file = None
     THEN /\ pc' = "error"
          /\ error' = Some("missing-pause-file")
          /\ UNCHANGED <<commit_state, pause_file>>
     ELSE IF ~Deserializable(Unwrap(pause_file))
     THEN /\ pc' = "error"
          /\ error' = Some("deserialize")
          /\ UNCHANGED <<commit_state, pause_file>>
     ELSE /\ commit_state' = Some(Deserialize(Unwrap(pause_file)))
          /\ pause_file' = None
          /\ pc' = "resuming"
          /\ error' = None
  /\ UNCHANGED <<planVarsButPc, lineVars>>
  /\ UNCHANGED <<dry, locktags, pause, branch, curt_vers, prev_vers, final_sizes, output,
                 next, tree, vcs_commits, tags>>

\* resume, from Repo::open on: CommitState::resume.
resume_commit ==
  /\ pc = "resuming"
  /\ LET repo == CommitState_resume(Unwrap(commit_state), Repo)
     IN /\ tree' = repo.tree
        /\ vcs_commits' = repo.vcs_commits
        /\ tags' = repo.tags
        /\ pause_file' = repo.pause_file
  /\ pc' = "resumed"
  /\ UNCHANGED <<planVarsButPc, lineVars>>
  /\ UNCHANGED <<dry, locktags, pause, branch, curt_vers, prev_vers, final_sizes, output,
                 next, commit_state, error>>

\* abort.
abort ==
  /\ Ended
  /\ IF pause_file = None
     THEN /\ pc' = "error"
          /\ error' = Some("missing-pause-file")
          /\ UNCHANGED pause_file
     ELSE /\ pause_file' = None
          /\ pc' = "aborted"
          /\ error' = None
  /\ UNCHANGED <<planVarsButPc, lineVars>>
  /\ UNCHANGED <<dry, locktags, pause, branch, curt_vers, prev_vers, final_sizes, output,
                 next, tree, vcs_commits, tags, commit_state>>

\* sanity_check with the test of the pause-file left out: Ok(()) always.
sanity_check_passes == None

\* sanity_check: the error it bails with, None for Ok(()).
sanity_check ==
  IF pause_file # None THEN Some("paused-state") ELSE None

\* The arguments of set: the id of a project or of none, and the value.
SetIds == {1, 3}
SetValues == {<<2, 0, 0>>}

\* VCS commits in a run of commands (set can be run again and again).
MaxVcsCommits == 2

\* A command other than release --resume and release --abort, from its start:
\* sanity_check, then set with --id: Mono::set_by_id and Mono::commit(false,
\* false).
set_command ==
  /\ Ended
  /\ \/ /\ sanity_check # None
        /\ pc' = "error"
        /\ error' = sanity_check
        /\ UNCHANGED <<tree, vcs_commits, tags, pause_file>>
     \/ /\ sanity_check = None
        /\ Len(vcs_commits) < MaxVcsCommits
        /\ \E id \in SetIds, value \in SetValues :
             IF ~get_project(id)
             THEN /\ pc' = "error"
                  /\ error' = Some("no-such-project")
                  /\ UNCHANGED <<tree, vcs_commits, tags, pause_file>>
             ELSE LET nxt == [StateWrite_new EXCEPT !.set = (id :> value)]
                      repo == Mono_commit(nxt, FALSE, FALSE, Repo)
                  IN /\ tree' = repo.tree
                     /\ vcs_commits' = repo.vcs_commits
                     /\ tags' = repo.tags
                     /\ pause_file' = repo.pause_file
                     /\ pc' = "set"
                     /\ error' = None
  /\ UNCHANGED <<planVarsButPc, lineVars>>
  /\ UNCHANGED <<dry, locktags, pause, branch, curt_vers, prev_vers, final_sizes, output,
                 next, commit_state>>

\* ------------------------------------------------------- specifications

\* The configurations build_plan is walked under: projects 1 and 2, or project
\* 1 alone (project 2 is then a project of the history only); project 2 may
\* depend on project 1; the one path is covered by project 1 today.
PlanConfigs ==
  { [projects |-> <<1, 2>>, sizes |-> (1 :> StrictSizes) @@ (2 :> t), depends |-> d,
     covers |-> (1 :> {"x"}) @@ (2 :> {})] :
      t \in SizeTables,
      d \in {[p \in {1, 2} |-> EmptyMap]}
           \cup {(1 :> EmptyMap) @@ (2 :> (1 :> m)) : m \in Mappers} }
  \cup { [projects |-> <<1>>, sizes |-> (1 :> StrictSizes), depends |-> (1 :> EmptyMap),
           covers |-> (1 :> {"x"})] }

Init ==
  /\ pc = "prs"
  /\ current \in PlanConfigs
  /\ PlanBuilderCreate
  /\ NoRelease
  /\ NoLine

Next ==
  \/ start_pr
  \/ start_commit
  \/ start_file
  \/ finish_commit
  \/ finish_pr
  \/ handle_deps_start
  \/ handle_deps_pop
  \/ handle_deps_return
  \/ sort_and_dedup

Spec == Init /\ [][Next]_vars

\* ---------------------------------------------- handle_deps on its own

DepsProjects == <<1, 2, 3>>

\* The orders in which the configuration file lists the projects.
DepsOrders == {DepsProjects, <<3, 2, 1>>}

\* Every depends graph over three projects (cycles included), every edge with
\* one of the mappers; the projects in one of their orders.
DepsConfigs ==
  { [projects |-> o,
     sizes |-> [p \in Range(DepsProjects) |-> StrictSizes],
     depends |-> d] :
      o \in DepsOrders,
      d \in { f \in [Range(DepsProjects) ->
                      UNION {[S -> Mappers] : S \in SUBSET Range(DepsProjects)}] :
                \A p \in Range(DepsProjects) : p \notin DOMAIN f[p] } }

\* The PR walk that gives project p the kind kinds[p]: PR number p has one
\* commit of that kind, which touches a file of p alone; NoValue: no such PR.
WalkOf(kinds) ==
  LET ids == DOMAIN kinds
      prs == {p \in ids : kinds[p] # NoValue}
      oid(p) == <<kinds[p], {"x"}, [q \in ids |-> IF q = p THEN {"x"} ELSE {}]>>
      size(p) == ProjectSize(StrictSizes, kinds[p])
      logged(p) ==
        [number |-> p, discovery_order |-> p - 1,
         commits |-> << [oid |-> oid(p), size |-> size(p), applies |-> TRUE,
                         duplicate |-> FALSE] >>]
  IN [walked |-> prs,
      failed |-> {oid(p) : p \in {q \in prs : is_failure(size(q))}},
      incrs |-> IF prs = {} THEN EmptyMap
                ELSE [p \in ids |->
                        IF p \in prs
                        THEN [size |-> size(p),
                              changelog |-> <<PrEntry(logged(p), size(p))>>]
                        ELSE [size |-> "Empty", changelog |-> <<>>]]]

\* The plan builder when the PR stream has ended (the fields handle_deps does
\* not read are as created).
InitDeps ==
  /\ pc = "prs"
  /\ current \in DepsConfigs
  /\ \E kinds \in [Range(DepsProjects) -> Kinds \cup {NoValue}] :
       /\ walked = WalkOf(kinds).walked
       /\ commits_walked = Cardinality(WalkOf(kinds).walked)
       /\ incrs = WalkOf(kinds).incrs
       /\ failed_commits = WalkOf(kinds).failed
  /\ on_pr_sizes = EmptyMap
  /\ on_ineffective = None
  /\ on_commit = None
  /\ files_left = <<>>
  /\ prev = None
  /\ ineffective = <<>>
  /\ chain_writes = <<>>
  /\ queue = <<>>
  /\ dependents = EmptyMap
  /\ dequeued = <<>>
  /\ NoRelease
  /\ NoLine

NextDeps ==
  \/ handle_deps_start
  \/ handle_deps_pop
  \/ handle_deps_return

SpecDeps == InitDeps /\ [][NextDeps]_vars


\* ------------------------------------------- sort_and_dedup on its own

\* The PRs of the changelogs sort_and_dedup is run on.
SortPrs == 3

\* The project whose changelog is sorted, and the projects it depends on.
SortProject == 1
SortUpstreams == {2, 3, 10}

\* The project and its upstreams, every edge with the identity mapper.
SortConfig ==
  [projects |-> <<2, 3, 10, 1>>,
   sizes |-> [p \in SortUpstreams \cup {SortProject} |-> StrictSizes],
   depends |-> [p \in SortUpstreams \cup {SortProject} |->
                  IF p = SortProject THEN [u \in SortUpstreams |-> "match"] ELSE EmptyMap]]

\* The commits of the PRs: two that apply to the project, a feat and a fix,
\* and a fix that touches a path of another project.
SortCommits ==
  { [LoggedCommit_new(<<"feat", {"x"}, (1 :> {"x"}) @@ (2 :> {})>>, "Minor")
       EXCEPT !.applies = TRUE],
    [LoggedCommit_new(<<"fix", {"x"}, (1 :> {"x"}) @@ (2 :> {})>>, "Patch")
       EXCEPT !.applies = TRUE],
    LoggedCommit_new(<<"fix", {"x"}, (1 :> {}) @@ (2 :> {"x"})>>, "Patch") }

\* The sequences of one or two different elements of S.
ShortSeqs(S) == {<<a>> : a \in S} \cup {x \in S \X S : x[1] # x[2]}

\* The commits finish_pr may have logged for a PR: one or two of the
\* commits, one of which applies.
SortCommitLists == {x \in ShortSeqs(SortCommits) : \E i \in DOMAIN x : x[i].applies}

\* The Pr entry finish_pr adds for PR n with the commits cs.
SortPrEntry(n, cs) ==
  LET app == SelectSeq(cs, LAMBDA c : c.applies)
  IN PrEntry([LoggedPr_capture(FullPr(n)) EXCEPT !.commits = cs],
             MaxOfSizes([i \in DOMAIN app |-> app[i].size]))

\* The Pr entries of some of the PRs, in the order of the stream.
SortPrParts ==
  UNION { { [i \in DOMAIN po |-> SortPrEntry(po[i], cs[po[i]])] :
              po \in UNION {Orders(P) : P \in SUBSET (1..SortPrs)} } :
          cs \in [1..SortPrs -> SortCommitLists] }

\* The Dep entries of some of the upstreams, in the order of the dequeues.
SortDepParts ==
  { [i \in DOMAIN uo |-> DepEntry(uo[i], <<"dep", uo[i]>>)] :
      uo \in UNION {Orders(U) : U \in SUBSET SortUpstreams} }

\* The changelogs handle_deps may leave: finish_pr has added the Pr entries,
\* handle_deps the Dep entries after them.
SortChangelogs == {prs \o deps : prs \in SortPrParts, deps \in SortDepParts}

\* The size incrs holds with a changelog: the upstreams are Minor.
SortSize(changelog) ==
  LET prs == SelectSeq(changelog, LAMBDA e : e.tag = "Pr")
      m == MaxOfSizes([i \in DOMAIN prs |-> prs[i].size])
  IN IF \E i \in DOMAIN changelog : changelog[i].tag = "Dep" THEN "Minor"
     ELSE IF m = NoValue THEN "Empty" ELSE m

\* The plan builder when handle_deps has returned (the fields sort_and_dedup
\* does not read are as created).
InitSort ==
  /\ pc = "sort"
  /\ current = SortConfig
  /\ \E changelog \in SortChangelogs :
       /\ incrs = (SortProject :> [size |-> SortSize(changelog), changelog |-> changelog])
       /\ walked = {changelog[i].pr.number :
                      i \in {j \in DOMAIN changelog : changelog[j].tag = "Pr"}}
  /\ commits_walked = 0
  /\ on_pr_sizes = EmptyMap
  /\ on_ineffective = None
  /\ on_commit = None
  /\ files_left = <<>>
  /\ prev = None
  /\ ineffective = <<>>
  /\ chain_writes = <<>>
  /\ failed_commits = {}
  /\ queue = <<>>
  /\ dependents = EmptyMap
  /\ dequeued = <<>>
  /\ NoRelease
  /\ NoLine

NextSort == sort_and_dedup

SpecSort == InitSort /\ [][NextSort]_vars

\* ------------------------------------------------------ release on a plan

ReleaseProjects == <<1, 2>>

\* Two projects, the second with or without a depends on the first; the first
\* with or without a restriction of its majors.
ReleaseConfigs ==
  { [projects |-> ReleaseProjects,
     sizes |-> [p \in Range(ReleaseProjects) |-> StrictSizes],
     depends |-> d,
     tag_majors |-> (1 :> m) @@ (2 :> None)] :
      d \in {(1 :> EmptyMap) @@ (2 :> EmptyMap),
             (1 :> EmptyMap) @@ (2 :> (1 :> "match"))},
      m \in {None, Some({1}), Some({2})} }

RECURSIVE HandleDepsRun(_)
\* The while loop of handle_deps, from a state of its queue to its end.
HandleDepsRun(st) ==
  IF st.queue = <<>> THEN st
  ELSE LET id == Head(st.queue)
           size == IF id \in DOMAIN st.incrs THEN st.incrs[id].size ELSE "Empty"
           depds == IF id \in DOMAIN st.dependents THEN st.dependents[id] ELSE EmptyMap
           order == CHOOSE o \in Orders(DOMAIN depds) : TRUE
       IN HandleDepsRun(
            ProcessDepds([st EXCEPT !.queue = Tail(@)], id, size, depds, order)
            @@ [dequeued |-> Append(st.dequeued, id)])

\* The plan build_plan returns for the walk that gives each project its kind.
PlanOf(cfg, kinds) ==
  LET ids == Range(cfg.projects)
      walk == WalkOf(kinds)
      deps == HandleDepsRun(
                [dependents |->
                   [u \in {x \in ids : \E d \in ids : x \in DOMAIN cfg.depends[d]} |->
                      [d \in {y \in ids : u \in DOMAIN cfg.depends[y]} |->
                         cfg.depends[d][u]]],
                 incrs |-> walk.incrs,
                 chain_writes |-> <<>>,
                 queue |-> SelectSeq(cfg.projects, LAMBDA p : DOMAIN cfg.depends[p] = {}),
                 dequeued |-> <<>>])
  IN [walked |-> walk.walked,
      failed |-> walk.failed,
      incrs |-> [p \in DOMAIN deps.incrs |->
                   [deps.incrs[p] EXCEPT !.changelog = SortAndDedup(@)]],
      chain_writes |-> deps.chain_writes,
      dependents |-> deps.dependents,
      dequeued |-> deps.dequeued]

\* The walks behind the plans: every kind for the first project, three for the
\* second.
ReleaseWalks ==
  { k \in [Range(ReleaseProjects) -> AllKinds \cup {NoValue}] :
      k[2] \in {NoValue, "fix", "-"} }

\* release has its plan from build_plan; the options are those of the command
\* line.
InitRelease ==
  /\ pc = "built"
  /\ current \in ReleaseConfigs
  /\ \E kinds \in ReleaseWalks :
       LET plan == PlanOf(current, kinds)
       IN /\ walked = plan.walked
          /\ commits_walked = Cardinality(plan.walked)
          /\ incrs = plan.incrs
          /\ failed_commits = plan.failed
          /\ chain_writes = plan.chain_writes
          /\ dependents = plan.dependents
          /\ dequeued = plan.dequeued
  /\ on_pr_sizes = EmptyMap
  /\ on_ineffective = None
  /\ on_commit = None
  /\ files_left = <<>>
  /\ prev = None
  /\ ineffective = <<>>
  /\ queue = <<>>
  /\ dry \in Engagements
  /\ locktags \in BOOLEAN
  /\ pause \in BOOLEAN
  /\ branch = None
  /\ curt_vers = EmptyMap
  /\ prev_vers = EmptyMap
  /\ final_sizes = EmptyMap
  /\ output = EmptyMap
  /\ next = StateWrite_new
  /\ tree = {}
  /\ vcs_commits = <<>>
  /\ tags = {}
  /\ pause_file = None
  /\ commit_state = None
  /\ error = None
  /\ NoLine

NextRelease ==
  \/ release_begin
  \/ release_project
  \/ release_finish
  \/ resume_load
  \/ resume_commit
  \/ abort

SpecRelease == InitRelease /\ [][NextRelease]_vars

\* ------------------------------------------- release among other commands

\* release, resume and abort, and set run between them.
NextCommands ==
  \/ release_begin
  \/ release_project
  \/ release_finish
  \/ resume_load
  \/ resume_commit
  \/ abort
  \/ set_command

SpecCommands == InitRelease /\ [][NextCommands]_vars

\* ------------------------------------ resume and abort on a damaged pause-file

\* Between two commands the pause-file of a paused release is cut short (a
\* full disk, an interrupted write, an edit by hand): the file is still there
\* and no longer holds a whole CommitState.
cut_pause_file ==
  /\ Ended
  /\ pause_file # None
  /\ Deserializable(Unwrap(pause_file))
  /\ \E d \in DamagedFiles(Unwrap(pause_file)) : pause_file' = Some(d)
  /\ UNCHANGED <<planVars, lineVars>>
  /\ UNCHANGED <<dry, locktags, pause, branch, curt_vers, prev_vers, final_sizes, output,
                 next, tree, vcs_commits, tags, commit_state, error>>

\* release, resume and abort, and the pause-file damaged between them.
NextResume ==
  \/ release_begin
  \/ release_project
  \/ release_finish
  \/ resume_load
  \/ resume_commit
  \/ abort
  \/ cut_pause_file

SpecResume == InitRelease /\ [][NextResume]_vars

\* ----------------------------------------------------------- find_old_tags

\* The in-line commits a walk visits at most.
MaxLine == 3

\* A string is the sequence of its characters.
DigitChars == <<"0", "1", "2", "3", "4", "5", "6", "7", "8", "9">>

IsDigit(ch) == \E i \in DOMAIN DigitChars : DigitChars[i] = ch

DigitValue(ch) == (CHOOSE i \in DOMAIN DigitChars : DigitChars[i] = ch) - 1

RECURSIVE ParseFrom(_, _)
\* str::parse::<u32> on digits: the number read so far and the characters left.
ParseFrom(n, chars) ==
  IF chars = <<>> THEN Some(n)
  ELSE IF IsDigit(Head(chars)) THEN ParseFrom(10 * n + DigitValue(Head(chars)), Tail(chars))
  ELSE None

\* str::parse::<u32>: None when the string is empty or has another character.
ParseInt(chars) == IF chars = <<>> THEN None ELSE ParseFrom(0, chars)

RECURSIVE SplitFrom(_, _, _, _)
SplitFrom(done, part, chars, sep) ==
  IF chars = <<>> THEN Append(done, part)
  ELSE IF Head(chars) = sep THEN SplitFrom(Append(done, part), <<>>, Tail(chars), sep)
  ELSE SplitFrom(done, Append(part, Head(chars)), Tail(chars), sep)

\* str::split.
Split(chars, sep) == SplitFrom(<<>>, <<>>, chars, sep)

\* Size::parts: the three integers of a version string, None when it is not
\* three integers joined by dots.
Parts(v) ==
  LET segs == Split(v, ".")
  IN IF Len(segs) = 3 /\ \A i \in 1..3 : ParseInt(segs[i]) # None
     THEN Some([i \in 1..3 |-> Unwrap(ParseInt(segs[i]))])
     ELSE None

\* str::rfind: the place of the last ch, 0 when there is none.
RFind(chars, ch) ==
  IF \E i \in DOMAIN chars : chars[i] = ch
  THEN CHOOSE i \in DOMAIN chars :
         chars[i] = ch /\ \A j \in DOMAIN chars : chars[j] = ch => j <= i
  ELSE 0

\* The closure of tags_to_versions on one tag, tag[v + 1 ..]: what follows the
\* character after the last '-' (after the first character without one); None
\* when the slice starts beyond the end of the tag, where the index panics.
TagVersion(tag) ==
  LET from == RFind(tag, "-") + 2
  IN IF from > Len(tag) + 1 THEN None ELSE Some(SubSeq(tag, from, Len(tag)))

\* tags_to_versions: the versions of the tags that Size::parts accepts.
tags_to_versions(tag_set) ==
  LET versions == {Unwrap(TagVersion(t)) : t \in {x \in tag_set : TagVersion(x) # None}}
  IN {v \in versions : Parts(v) # None}

\* version_sort with the two outcomes of each comparison exchanged: the lowest
\* version sorts first.
version_sort_ascending(a, b) ==
  LET p1 == Parts(a)
      p2 == Parts(b)
  IN IF p1 # None
     THEN IF p2 # None
          THEN LET x == Unwrap(p1)
                   y == Unwrap(p2)
               IN IF x[1] < y[1] THEN "Less"
                  ELSE IF x[1] > y[1] THEN "Greater"
                  ELSE IF x[2] < y[2] THEN "Less"
                  ELSE IF x[2] > y[2] THEN "Greater"
                  ELSE IF x[3] < y[3] THEN "Less"
                  ELSE IF x[3] > y[3] THEN "Greater"
                  ELSE "Equal"
          ELSE "Greater"
     ELSE IF p2 # None THEN "Less" ELSE "Equal"

\* version_sort: the higher version sorts first.
version_sort(a, b) ==
  LET p1 == Parts(a)
      p2 == Parts(b)
  IN IF p1 # None
     THEN IF p2 # None
          THEN LET x == Unwrap(p1)
                   y == Unwrap(p2)
               IN IF x[1] < y[1] THEN "Greater"
                  ELSE IF x[1] > y[1] THEN "Less"
                  ELSE IF x[2] < y[2] THEN "Greater"
                  ELSE IF x[2] > y[2] THEN "Less"
                  ELSE IF x[3] < y[3] THEN "Greater"
                  ELSE IF x[3] > y[3] THEN "Less"
                  ELSE "Equal"
          ELSE "Greater"
     ELSE IF p2 # None THEN "Less" ELSE "Equal"

\* versions.sort_unstable_by(version_sort); versions[0]: the versions that may
\* come first (an unstable sort leaves the order of equal ones open).
SortedFirst(versions) ==
  {v \in versions : \A w \in versions : version_sort(v, w) # "Greater"}

\* The prefix all tags of a fnmatch pattern of tag_fnmatches start with: the
\* pattern without its closing '*'.
tag_fnmatches(cfg, id) ==
  LET majors_v ==
        IF cfg.tag_majors[id] # None
        THEN {<<"v">> \o <<DigitChars[major + 1]>> \o <<".">> :
                major \in Unwrap(cfg.tag_majors[id])}
        ELSE {<<"v">>}
      tag_prefix == cfg.tag_prefix[id]
  IN IF tag_prefix = None THEN {}
     ELSE IF Unwrap(tag_prefix) = <<>> THEN majors_v
     ELSE {Unwrap(tag_prefix) \o <<"-">> \o major_v : major_v \in majors_v}

\* Repository::tag_names with a pattern: the tags that start with its prefix.
tag_names(pattern) ==
  {t \in repo_tags : Len(t.name) >= Len(pattern) /\ SubSeq(t.name, 1, Len(pattern)) = pattern}

\* The tags of the repository that a project's patterns match.
ProjectTags(id) == UNION {tag_names(pattern) : pattern \in tag_fnmatches(current, id)}

\* find_old_tags, to its walk of the commits: by_proj_oid is built from the
\* tags of the repository.
find_old_tags_index ==
  /\ pc = "find_old_tags"
  /\ by_proj_oid' =
       [id \in {x \in CurrentIds : ProjectTags(x) # {}} |->
          [oid \in {t.oid : t \in ProjectTags(id)} |->
             {t.name : t \in {x \in ProjectTags(id) : x.oid = oid}}]]
  /\ old_current' = EmptyMap
  /\ pc' = "old_walk"
  /\ UNCHANGED <<current, commits_walked, error, line, repo_tags, old_prev, on_line_commit,
                 last_commits, prev, files_left>>
  /\ UNCHANGED <<walked, on_pr_sizes, on_ineffective, on_commit, incrs, ineffective,
                 chain_writes, failed_commits, queue, dependents, dequeued>>
  /\ UNCHANGED <<dry, locktags, pause, branch, curt_vers, prev_vers, final_sizes, output, next,
                 tree, vcs_commits, tags, pause_file, commit_state>>

\* One turn of the loop over commits_to_head: by_proj_oid.retain on the next
\* commit. The index tag[v + 1 ..] and the index versions[0] panic when they
\* are out of bounds.
find_old_tags_commit ==
  /\ pc = "old_walk"
  /\ commits_walked < Len(line)
  /\ LET commit_oid == line[commits_walked + 1].id
         hit == {id \in DOMAIN by_proj_oid : commit_oid \in DOMAIN by_proj_oid[id]}
         found(id) == by_proj_oid[id][commit_oid]
     IN IF \E id \in hit :
             \/ \E t \in found(id) : TagVersion(t) = None
             \/ tags_to_versions(found(id)) = {}
        THEN /\ pc' = "panic"
             /\ UNCHANGED <<commits_walked, by_proj_oid, old_current>>
        ELSE /\ \E first \in [hit -> UNION {tags_to_versions(found(id)) : id \in hit}] :
                  /\ \A id \in hit : first[id] \in SortedFirst(tags_to_versions(found(id)))
                  /\ old_current' = first @@ old_current
             /\ by_proj_oid' = [id \in DOMAIN by_proj_oid \ hit |-> by_proj_oid[id]]
             /\ commits_walked' = commits_walked + 1
             /\ pc' = pc
  /\ UNCHANGED <<current, error, line, repo_tags, old_prev, on_line_commit, last_commits, prev,
                 files_left>>
  /\ UNCHANGED <<walked, on_pr_sizes, on_ineffective, on_commit, incrs, ineffective,
                 chain_writes, failed_commits, queue, dependents, dequeued>>
  /\ UNCHANGED <<dry, locktags, pause, branch, curt_vers, prev_vers, final_sizes, output, next,
                 tree, vcs_commits, tags, pause_file, commit_state>>

\* The versions the annotation of the prev-tag may hold: none (or no
\* annotation), for the first project, for both.
Annotations ==
  {EmptyMap, (1 :> <<"0", ".", "9", ".", "0">>),
   (1 :> <<"0", ".", "9", ".", "0">>) @@ (2 :> <<"0", ".", "1", ".", "0">>)}

\* fill_from_prev.
fill_from_prev(prv, proj_ids, cur) ==
  [id \in DOMAIN cur \cup (proj_ids \cap DOMAIN prv) |->
     IF id \in DOMAIN cur THEN cur[id] ELSE prv[id]]

\* find_old_tags, from the end of its walk to its return: pull_from_annotation
\* (an annotation that is not the JSON of a PrevTagMessage is an error) and
\* fill_from_prev.
find_old_tags_finish ==
  /\ pc = "old_walk"
  /\ commits_walked = Len(line)
  /\ \/ /\ pc' = "error"
        /\ error' = Some("annotation")
        /\ UNCHANGED <<old_current, old_prev>>
     \/ \E anno \in Annotations :
          /\ old_prev' = anno
          /\ old_current' = fill_from_prev(anno, CurrentIds, old_current)
          /\ pc' = "old_tags"
          /\ UNCHANGED error
  /\ UNCHANGED <<current, commits_walked, line, repo_tags, by_proj_oid, on_line_commit,
                 last_commits, prev, files_left>>
  /\ UNCHANGED <<walked, on_pr_sizes, on_ineffective, on_commit, incrs, ineffective,
                 chain_writes, failed_commits, queue, dependents, dequeued>>
  /\ UNCHANGED <<dry, locktags, pause, branch, curt_vers, prev_vers, final_sizes, output, next,
                 tree, vcs_commits, tags, pause_file, commit_state>>

\* The commits of the repository, the newest first: different commits that
\* touch a file.
OldCommits ==
  CHOOSE cs \in [1..MaxLine -> {c \in Commits : c.files # {}}] :
    \A i, j \in 1..MaxLine : cs[i] = cs[j] => i = j

\* The tag names of the repository: a-v1.0.0, a-v1.2.0, a-v2.0.0, a-v1.x and
\* a-v1.0.0- for the first project, b-v0.2.0 for the second.
TagNames ==
  { <<"a", "-", "v", "1", ".", "0", ".", "0">>,
    <<"a", "-", "v", "1", ".", "2", ".", "0">>,
    <<"a", "-", "v", "2", ".", "0", ".", "0">>,
    <<"a", "-", "v", "1", ".", "x">>,
    <<"a", "-", "v", "1", ".", "0", ".", "0", "-">>,
    <<"b", "-", "v", "0", ".", "2", ".", "0">> }

\* The tags of a repository: each of the names is on one of the commits, or
\* is not a tag of the repository.
TagSets ==
  { {[name |-> n, oid |-> OldCommits[at[n]].id] : n \in {x \in TagNames : at[x] # 0}} :
      at \in [TagNames -> 0..MaxLine] }

\* Two projects with the tag prefixes a and b, the first with or without a
\* restriction of its majors, the second with or without its prefix.
OldTagsConfigs ==
  { [projects |-> <<1, 2>>,
     tag_prefix |-> (1 :> Some(<<"a">>)) @@ (2 :> b),
     tag_majors |-> (1 :> m) @@ (2 :> None)] :
      m \in {None, Some({1})}, b \in {None, Some(<<"b">>)} }

\* Mono::open calls find_old_tags: the prev-tag is on one of the commits, and
\* the walk goes from HEAD back to it.
InitOldTags ==
  /\ pc = "find_old_tags"
  /\ current \in OldTagsConfigs
  /\ PlanBuilderCreate
  /\ NoRelease
  /\ line \in {SubSeq(OldCommits, 1, n) : n \in 1..MaxLine}
  /\ repo_tags \in TagSets
  /\ by_proj_oid = EmptyMap
  /\ old_current = EmptyMap
  /\ old_prev = EmptyMap
  /\ on_line_commit = None
  /\ last_commits = EmptyMap

NextOldTags ==
  \/ find_old_tags_index
  \/ find_old_tags_commit
  \/ find_old_tags_finish

SpecOldTags == InitOldTags /\ [][NextOldTags]_vars

\* ------------------------------------------------------ find_last_commits

\* LastCommitBuilder::start_line_commit.
start_line_commit ==
  /\ pc = "line"
  /\ commits_walked < Len(line)
  /\ LET commit == line[commits_walked + 1]
     IN /\ on_line_commit' = Some(commit.id)
        /\ prev' = Some(commit.snapshot)
        /\ files_left' = FileSeq(commit.files)
  /\ commits_walked' = commits_walked + 1
  /\ pc' = "line_files"
  /\ UNCHANGED <<current, error, line, repo_tags, by_proj_oid, old_current, old_prev,
                 last_commits>>
  /\ UNCHANGED <<walked, on_pr_sizes, on_ineffective, on_commit, incrs, ineffective,
                 chain_writes, failed_commits, queue, dependents, dequeued>>
  /\ UNCHANGED <<dry, locktags, pause, branch, curt_vers, prev_vers, final_sizes, output, next,
                 tree, vcs_commits, tags, pause_file, commit_state>>

\* The test of start_line_file with contains_key left out: the projects of
\* the sliced configuration that exist today and cover the path.
Inserted_overwriting(file, path) ==
  {proj_id \in DOMAIN file : get_project(proj_id) /\ does_cover(file, proj_id, path)}

\* The test of start_line_file: the projects of the sliced configuration that
\* exist today, cover the path and have no last commit yet.
Inserted(file, path) ==
  {proj_id \in DOMAIN file :
     /\ get_project(proj_id)
     /\ does_cover(file, proj_id, path)
     /\ proj_id \notin DOMAIN last_commits}

\* LastCommitBuilder::start_line_file, followed by finish_line_file.
start_line_file ==
  /\ pc = "line_files"
  /\ files_left # <<>>
  /\ on_line_commit # None
  /\ prev # None
  /\ LET commit_id == Unwrap(on_line_commit)
         ins == Inserted(Unwrap(prev), Head(files_left))
     IN last_commits' =
          [proj_id \in DOMAIN last_commits \cup ins |->
             IF proj_id \in ins THEN commit_id ELSE last_commits[proj_id]]
  /\ files_left' = Tail(files_left)
  /\ UNCHANGED <<pc, current, commits_walked, error, line, repo_tags, by_proj_oid, old_current,
                 old_prev, on_line_commit, prev>>
  /\ UNCHANGED <<walked, on_pr_sizes, on_ineffective, on_commit, incrs, ineffective,
                 chain_writes, failed_commits, queue, dependents, dequeued>>
  /\ UNCHANGED <<dry, locktags, pause, branch, curt_vers, prev_vers, final_sizes, output, next,
                 tree, vcs_commits, tags, pause_file, commit_state>>

\* LastCommitBuilder::finish_line_commit.
finish_line_commit ==
  /\ pc = "line_files"
  /\ files_left = <<>>
  /\ pc' = "line"
  /\ UNCHANGED <<current, commits_walked, error, line, repo_tags, by_proj_oid, old_current,
                 old_prev, on_line_commit, last_commits, prev, files_left>>
  /\ UNCHANGED <<walked, on_pr_sizes, on_ineffective, on_commit, incrs, ineffective,
                 chain_writes, failed_commits, queue, dependents, dequeued>>
  /\ UNCHANGED <<dry, locktags, pause, branch, curt_vers, prev_vers, final_sizes, output, next,
                 tree, vcs_commits, tags, pause_file, commit_state>>

\* The in-line commits have ended: LastCommitBuilder::build, and
\* find_last_commits returns.
find_last_commits_return ==
  /\ pc = "line"
  /\ commits_walked = Len(line)
  /\ pc' = "last_commits"
  /\ UNCHANGED <<current, commits_walked, error, line, repo_tags, by_proj_oid, old_current,
                 old_prev, on_line_commit, last_commits, prev, files_left>>
  /\ UNCHANGED <<walked, on_pr_sizes, on_ineffective, on_commit, incrs, ineffective,
                 chain_writes, failed_commits, queue, dependents, dequeued>>
  /\ UNCHANGED <<dry, locktags, pause, branch, curt_vers, prev_vers, final_sizes, output, next,
                 tree, vcs_commits, tags, pause_file, commit_state>>

\* The in-line commits of a repository: up to MaxLine different commits.
Lines ==
  UNION { {cs \in [1..n -> Commits] : \A i, j \in 1..n : cs[i] = cs[j] => i = j} :
            n \in 0..MaxLine }

\* The configurations the walk is run under: projects 1 and 2, or project 1
\* alone (project 2 is then a project of the history only).
LineConfigs ==
  {cfg \in PlanConfigs :
     \A id \in Range(cfg.projects) :
       cfg.sizes[id] = StrictSizes /\ cfg.depends[id] = EmptyMap}

\* Mono::open calls find_last_commits: LastCommitBuilder::create.
InitLastCommits ==
  /\ pc = "line"
  /\ current \in LineConfigs
  /\ PlanBuilderCreate
  /\ NoRelease
  /\ line \in Lines
  /\ repo_tags = {}
  /\ by_proj_oid = EmptyMap
  /\ old_current = EmptyMap
  /\ old_prev = EmptyMap
  /\ on_line_commit = None
  /\ last_commits = EmptyMap

NextLastCommits ==
  \/ start_line_commit
  \/ start_line_file
  \/ finish_line_commit
  \/ find_last_commits_return

SpecLastCommits == InitLastCommits /\ [][NextLastCommits]_vars

\* ------------------------------------------------- properties of the plan

\* The positions <<i, j>> of the commits of the Pr entries of a changelog.
CommitsAt(changelog) ==
  {<<i, j>> \in (DOMAIN changelog) \X (1..MaxCommits) :
     changelog[i].tag = "Pr" /\ j \in DOMAIN changelog[i].pr.commits}

\* C3 (Dedup): after sort_and_dedup, in every project's changelog no two
\* LoggedCommits of the same oid, over all of its Pr entries, are both included.
C3_Dedup ==
  pc = "built" =>
    \A p \in DOMAIN incrs :
      LET changelog == incrs[p].changelog
      IN \A a, b \in CommitsAt(changelog) :
           LET c1 == changelog[a[1]].pr.commits[a[2]]
               c2 == changelog[b[1]].pr.commits[b[2]]
           IN (a # b /\ c1.oid = c2.oid) => ~(included(c1) /\ included(c2))

\* A commit that applies to a project came with two PRs, and sort_and_dedup
\* has marked one of the two as a duplicate.
C3_Witness ==
  /\ pc = "built"
  /\ \E p \in DOMAIN incrs :
       LET changelog == incrs[p].changelog
       IN \E a, b \in CommitsAt(changelog) :
            LET c1 == changelog[a[1]].pr.commits[a[2]]
                c2 == changelog[b[1]].pr.commits[b[2]]
            IN /\ a[1] # b[1]
               /\ c1.oid = c2.oid
               /\ included(c1)
               /\ c2.applies /\ c2.duplicate

\* The PRs whose walk is complete.
FinishedPrs ==
  IF on_ineffective # None THEN walked \ {Unwrap(on_ineffective).number} ELSE walked

\* The Pr entries of PR n in the changelogs of incrs.
EntriesOf(n) ==
  {e \in UNION {Range(incrs[p].changelog) : p \in DOMAIN incrs} :
     e.tag = "Pr" /\ e.pr.number = n}

\* The places of PR n in Plan.ineffective.
IneffectiveAt(n) == {i \in DOMAIN ineffective : ineffective[i].number = n}

\* No commit of the PR under walk applies to any project.
NoneApplies ==
  \A p \in DOMAIN on_pr_sizes : \A c \in Range(on_pr_sizes[p].commits) : ~c.applies

\* C4 (Ineffective idempotence): finish_pr on a PR none of whose commits
\* applies to a project pushes it to ineffective and enters it in no changelog;
\* and at any time a finished PR with no applying commit in the changelogs is
\* exactly once in ineffective and has no entry in a changelog.
C4_IneffectiveOnce ==
  /\ [](\A n \in FinishedPrs :
          (\A e \in EntriesOf(n) : \A c \in Range(e.pr.commits) : ~c.applies)
            => Cardinality(IneffectiveAt(n)) = 1 /\ EntriesOf(n) = {})
  /\ [][(pc = "commits" /\ pc' = "prs" /\ NoneApplies)
          => /\ ineffective' = Append(ineffective, Unwrap(on_ineffective))
             /\ incrs' = [p \in DOMAIN incrs' |->
                            IF p \in DOMAIN incrs THEN incrs[p]
                            ELSE [size |-> "Empty", changelog |-> <<>>]]]_vars

\* The first PR had its commits walked, none applied, and it is the one
\* ineffective PR; the second PR is under walk.
C4_Witness ==
  /\ walked = {1, 2}
  /\ on_ineffective # None /\ Unwrap(on_ineffective).number = 2
  /\ commits_walked >= 2
  /\ on_pr_sizes # EmptyMap
  /\ \A p \in DOMAIN on_pr_sizes : on_pr_sizes[p].commits = <<>>
  /\ Len(ineffective) = 1 /\ ineffective[1].number = 1

\* The LoggedCommits of project p: those of the PR under walk and those of
\* its changelog.
LoggedCommitsOf(p) ==
  (IF p \in DOMAIN on_pr_sizes THEN Range(on_pr_sizes[p].commits) ELSE {})
  \cup (IF p \in DOMAIN incrs
        THEN UNION {Range(e.pr.commits) :
                      e \in {x \in Range(incrs[p].changelog) : x.tag = "Pr"}}
        ELSE {})

\* C8 (Historical attribution): a commit applies to project p only if p is a
\* project of the current configuration and p's coverage in the configuration
\* as of that commit (the third part of the commit's id) matches one of the
\* commit's files (the second part).
C8_HistoricalAttribution ==
  \A p \in ProjectIds :
    \A c \in LoggedCommitsOf(p) :
      c.applies =>
        /\ p \in CurrentIds
        /\ p \in DOMAIN c.oid[3]
        /\ \E path \in c.oid[2] : path \in c.oid[3][p]

\* A commit touches a path that project p covers today but did not cover as of
\* the commit: its files are walked and it does not apply to p; a later commit,
\* as of which p covers the path, applies.
C8_Witness ==
  /\ pc = "commits"
  /\ \E p \in DOMAIN on_pr_sizes :
       \E i, j \in DOMAIN on_pr_sizes[p].commits :
         LET c == on_pr_sizes[p].commits[i]
             d == on_pr_sizes[p].commits[j]
         IN /\ i < j
            /\ \E path \in c.oid[2] : path \in current.covers[p] /\ path \notin c.oid[3][p]
            /\ ~c.applies
            /\ d.applies

\* -------------------------------------------- properties of handle_deps

\* The size the PR walk gave a project: the max over the Pr entries of its
\* changelog, Empty without one.
WalkSize(id) ==
  IF id \notin DOMAIN incrs THEN "Empty"
  ELSE LET prs == SelectSeq(incrs[id].changelog, LAMBDA e : e.tag = "Pr")
           m == MaxOfSizes([i \in DOMAIN prs |-> prs[i].size])
       IN IF m = NoValue THEN "Empty" ELSE m

\* C5 (Dep propagation): when handle_deps has returned, a project A that
\* depends on B through the identity mapper, with B of walk size Minor, has a
\* plan size of Minor or more and a Dep(B, name of B) entry in its changelog,
\* and chain_writes holds (B, A).
C5_DepPropagation ==
  pc = "sort" =>
    \A A, B \in CurrentIds :
      (/\ B \in DOMAIN current.depends[A]
       /\ current.depends[A][B] = "match"
       /\ WalkSize(B) = "Minor")
      => /\ A \in DOMAIN incrs
         /\ SizeRank(incrs[A].size) >= SizeRank("Minor")
         /\ DepEntry(B, ProjectName(B)) \in Range(incrs[A].changelog)
         /\ <<B, A>> \in Range(chain_writes)

\* C6 (Chain-write completeness): when handle_deps has returned, chain_writes
\* holds (upstream, downstream) for every edge of the depends maps of the
\* current configuration.
C6_ChainWriteComplete ==
  pc = "sort" =>
    \A d \in CurrentIds :
      \A u \in DOMAIN current.depends[d] : <<u, d>> \in Range(chain_writes)

\* C7 (Dependency cycle): handle_deps does not return a plan when its queue
\* has drained with edges of the depends graph still unprocessed.
C7_CycleIsError ==
  pc = "sort" => \A u \in DOMAIN dependents : DOMAIN dependents[u] = {}

\* The depends graph of the current configuration has no cycle.
Acyclic ==
  LET up(S) == S \cup {u \in CurrentIds : \E d \in S : u \in DOMAIN current.depends[d]}
      reach(n) == up(up(up(DOMAIN current.depends[n])))
  IN \A n \in CurrentIds : n \notin reach(n)

\* On a depends graph without a cycle the three properties of handle_deps
\* hold: every project is popped once all of its upstreams have been.
AcyclicDepsComplete ==
  Acyclic => C5_DepPropagation /\ C6_ChainWriteComplete /\ C7_CycleIsError

\* ------------------------------------------------ properties of release

\* C1 (Failure poison): when a commit walked by the plan builder got size
\* Failure, release in Full engagement ends with an error and does not reach
\* Mono::commit: nothing is committed, tagged or paused.
C1_FailurePoison ==
  (dry = "Full" /\ failed_commits # {}) =>
    /\ pc \in {"built", "projects", "error"}
    /\ vcs_commits = <<>>
    /\ tags = {}
    /\ pause_file = None

\* release has run to its end without an error.
Completed == pc \in {"committed", "paused", "changelogs", "dry"}

\* C2 (Monotone versions): when release completes without error, the final
\* version of every project of the plan is not below its current version, and
\* its current version is not below its prev version when it has one.
C2_MonotoneVersions ==
  Completed =>
    \A id \in DOMAIN final_sizes :
      /\ ~less_than(final_sizes[id], curt_vers[id])
      /\ prev_vers[id] # None => ~less_than(curt_vers[id], Unwrap(prev_vers[id]))

\* The repository every release of SpecRelease starts from.
FreshRepo == [tree |-> {}, vcs_commits |-> <<>>, tags |-> {}, pause_file |-> None]

\* C9 (Pause round-trip): after release with pause and then resume, the
\* working tree, the VCS commits and the tags are those of Mono::commit without
\* pause on the same repository and the same pending writes, and no pause-file
\* is left.
C9_PauseRoundTrip ==
  pc = "resumed" =>
    LET direct == Mono_commit(next, TRUE, FALSE, FreshRepo)
    IN /\ tree = direct.tree
       /\ vcs_commits = direct.vcs_commits
       /\ tags = direct.tags
       /\ pause_file = direct.pause_file

\* A paused release has been resumed: one commit of the written files, and a
\* new tag and a forward tag made.
C9_Witness ==
  /\ pc = "resumed"
  /\ Len(vcs_commits) = 1 /\ vcs_commits[1].files # {}
  /\ \E t1, t2 \in tags : t1.forward /\ ~t2.forward

\* C10 (Pause defers the commit): a Full release with pause ends with the
\* pause-file written, no VCS commit and no tag; and in a run of a Full release
\* with pause there is a VCS commit or a tag only once resume has loaded the
\* pause-file and run CommitState::resume.
C10_PauseDefersCommit ==
  /\ pc = "paused" => pause_file # None /\ vcs_commits = <<>> /\ tags = {}
  /\ (dry = "Full" /\ pause /\ (vcs_commits # <<>> \/ tags # {}))
       => commit_state # None /\ pc # "resuming"

\* A Full release with pause has ended with files written and tags pending.
C10_Witness ==
  /\ pc = "paused"
  /\ tree # {}
  /\ NewTags(next) # {}
  /\ pause_file = Some(Serialize([new_tags |-> NewTags(next), advance_prev |-> TRUE]))

\* ----------------------------------------- properties of the pause-file

\* The repository and what release holds of it.
repoVars == <<tree, vcs_commits, tags, pause_file, next, commit_state>>

\* C11 (Pause-file as lock): while the pause-file exists, a step of a command
\* other than release --resume and release --abort ends it with the
\* paused-state error and changes nothing of the repository; while the file is
\* absent no command ends with the paused-state error.
C11_PauseFileLocks ==
  [][/\ (pause_file # None /\ pause_file' = pause_file /\ pc' # "resuming")
          => /\ pc' = "error"
             /\ error' = Some("paused-state")
             /\ UNCHANGED repoVars
     /\ (pause_file = None /\ error # Some("paused-state"))
          => error' # Some("paused-state")]_vars

\* set was run on a paused release and has failed with the paused-state
\* error; the pause-file is still there.
C11_Witness ==
  /\ pc = "error"
  /\ error = Some("paused-state")
  /\ pause_file # None
  /\ vcs_commits = <<>>

\* C12 (Resume ordering): when resume is about to commit, the pause-file has
\* been loaded and is already deleted; its next step makes one VCS commit of
\* the working tree and the tags of the loaded state; no VCS commit holds the
\* pause-file; and after resume the pause-file is absent.
C12_ResumeOrdering ==
  /\ [](/\ pc = "resuming" => pause_file = None /\ commit_state # None
        /\ pc = "resumed" => pause_file = None /\ vcs_commits # <<>>
        /\ \A i \in DOMAIN vcs_commits : PauseFileEntry \notin vcs_commits[i].files)
  /\ [][pc = "resuming" =>
          /\ pc' = "resumed"
          /\ vcs_commits' = Append(vcs_commits,
                              [files |-> tree,
                               advance_prev |-> Unwrap(commit_state).advance_prev])
          /\ tags' = tags \cup Unwrap(commit_state).new_tags
          /\ UNCHANGED <<tree, pause_file>>]_vars

\* resume has loaded the state of a paused release and removed the pause-file,
\* and has not committed yet.
C12_Witness ==
  /\ pc = "resuming"
  /\ pause_file = None
  /\ commit_state # None /\ Unwrap(commit_state).new_tags # {}
  /\ tree # {}
  /\ vcs_commits = <<>>

\* ------------------------------------- properties of the release decision

\* release has gone through project id without an error.
Released(id) == id \in DOMAIN final_sizes

\* release does not bump project id: it has no prev version, or the target is
\* not above its current version.
NoBump(id) ==
  /\ incrs[id].size \notin {"Empty", "Failure"}
  /\ \/ prev_vers[id] = None
     \/ ~less_than(curt_vers[id], apply(incrs[id].size, Unwrap(prev_vers[id])))

\* C13 (Non-bump output): for a project of a non-Empty, non-Failure size that
\* release does not bump, the version source is not rewritten, and the version
\* that goes to final_sizes, to its changelog and to the chain writes from it
\* is its current version.
C13_NonBumpOutput ==
  \A id \in DOMAIN incrs :
    (Released(id) /\ NoBump(id)) =>
      /\ id \notin DOMAIN next.set
      /\ final_sizes[id] = curt_vers[id]
      /\ next.changelog[id] = curt_vers[id]
      /\ \A c \in next.chain : c.on = id => c.value = curt_vers[id]

\* release bumps project id: the target is above its current version.
Bump(id) ==
  /\ incrs[id].size \in {"Patch", "Minor", "Major"}
  /\ prev_vers[id] # None
  /\ less_than(curt_vers[id], apply(incrs[id].size, Unwrap(prev_vers[id])))

\* C14 (Bump): for a project with a prev version and a size of Patch, Minor or
\* Major whose target is above its current version, release either fails on
\* the restrictions of the target (after which resume and abort can only fail
\* for want of a pause-file), or writes the target into the version
\* source, requests no forward tag, reports the change and takes the target as
\* the project's version.
C14_Bump ==
  \A id \in DOMAIN curt_vers :
    Bump(id) =>
      LET target == apply(incrs[id].size, Unwrap(prev_vers[id]))
      IN IF Released(id)
         THEN /\ verify_restrictions(id, target)
              /\ id \in DOMAIN next.set /\ next.set[id] = target
              /\ id \notin DOMAIN next.forward
              /\ output[id] = "changed"
              /\ final_sizes[id] = target
         ELSE /\ ~verify_restrictions(id, target)
              /\ pc = "error"
              /\ error \in {Some("restriction"), Some("missing-pause-file")}
              /\ id \notin DOMAIN next.set

\* Release has bumped a project whose majors are restricted: the target, a new
\* minor of an allowed major, is written and the release is committed.
C14_Witness ==
  /\ pc = "committed"
  /\ \E id \in DOMAIN final_sizes :
       /\ Bump(id)
       /\ current.tag_majors[id] # None
       /\ final_sizes[id] = <<1, 1, 0>>
       /\ curt_vers[id] = <<1, 0, 1>>
       /\ [project |-> id, vers |-> <<1, 1, 0>>, forward |-> FALSE] \in tags

\* C15 (Locktags): with locktags no forward tag is requested or made for any
\* project, and a project that is not bumped (prev absent, or target not above
\* current) is reported as no_change; without locktags such a project gets a
\* forward tag requested at its current version and is reported as new or as
\* forward.
C15_Locktags ==
  /\ locktags => /\ next.forward = EmptyMap
                 /\ \A t \in tags : ~t.forward
  /\ \A id \in DOMAIN incrs :
       (Released(id) /\ NoBump(id)) =>
         IF locktags
         THEN output[id] = "no_change"
         ELSE /\ id \in DOMAIN next.forward
              /\ next.forward[id] = curt_vers[id]
              /\ output[id] = (IF prev_vers[id] = None THEN "new" ELSE "forward")

\* A release with locktags has been committed: one project whose target is
\* not above its current version and one without a prev version, both reported
\* as no_change, and no tag made.
C15_Witness ==
  /\ locktags
  /\ pc = "committed"
  /\ \E a, b \in DOMAIN final_sizes :
       /\ NoBump(a) /\ prev_vers[a] # None /\ output[a] = "no_change"
       /\ NoBump(b) /\ prev_vers[b] = None /\ output[b] = "no_change"
  /\ tags = {}

\* The version release decides on for project id, whose versions it has read:
\* the target when that is above the current version, the current version
\* otherwise.
Candidate(id) ==
  LET size == incrs[id].size
  IN IF /\ prev_vers[id] # None
        /\ size \notin {"Empty", "Failure"}
        /\ less_than(curt_vers[id], apply(size, Unwrap(prev_vers[id])))
     THEN apply(size, Unwrap(prev_vers[id]))
     ELSE curt_vers[id]

\* Nothing of the repository is written, committed or tagged.
NothingWritten ==
  /\ tree = {}
  /\ vcs_commits = <<>>
  /\ tags = {}
  /\ pause_file = None

\* C16 as stated (Restriction violations surface before any write): when the
\* candidate version of any project of the plan that release has come to is
\* outside the project's restrictions, release does not go beyond its loop
\* but to an error, and nothing is written, committed or tagged, in every
\* engagement.
C16_AnyProjectRestricted ==
  (\E id \in DOMAIN curt_vers : ~verify_restrictions(id, Candidate(id)))
    => pc \in {"projects", "error"} /\ NothingWritten

\* C16, for the projects with a change: when the candidate version of a
\* project of non-Empty size that release has come to is outside the project's
\* restrictions, release has ended with an error, and nothing is written,
\* committed or tagged, in every engagement.
C16_RestrictionsBeforeWrite ==
  (\E id \in DOMAIN curt_vers :
      incrs[id].size # "Empty" /\ ~verify_restrictions(id, Candidate(id)))
    => pc = "error" /\ NothingWritten

\* A release that writes changelogs has failed on the restrictions of its
\* second project: the changelog of the first was pending, and no file is
\* written.
C16_Witness ==
  /\ pc = "error"
  /\ error = Some("restriction")
  /\ dry = "Changelog"
  /\ next.changelog # EmptyMap
  /\ \E id \in DOMAIN curt_vers :
       incrs[id].size # "Empty" /\ ~verify_restrictions(id, Candidate(id))
  /\ NothingWritten

\* The config names a branch, and the repository is on a branch of another
\* name or on no branch.
Mismatch(b) ==
  /\ b.cfg # None
  /\ b.name.ok
  /\ b.name.name = None \/ Unwrap(b.name.name) # Unwrap(b.cfg)

C18_EngagementModes ==
  /\ dry # "Full" => vcs_commits = <<>> /\ tags = {} /\ pause_file = None
  /\ dry = "Dry" => tree = {}
  /\ dry = "Changelog" => tree \in {{}, ChangelogEdits(next)}
  /\ pc = "changelogs" => dry = "Changelog" /\ tree = ChangelogEdits(next)
  /\ pc = "dry" => dry = "Dry"
  /\ pc = "committed" =>
       /\ dry = "Full"
       /\ tree = FileEdits(next)
       /\ vcs_commits = <<[files |-> FileEdits(next), advance_prev |-> TRUE]>>
       /\ tags = NewTags(next)

\* A Dry release of a plan with a bump and a chain write has completed: the
\* writes are pending in Mono.next and nothing is written.
C18_Witness ==
  /\ pc = "dry"
  /\ next.set # EmptyMap
  /\ next.changelog # EmptyMap
  /\ next.chain # {}
  /\ NothingWritten

\* ------------------------------------------- determinism of the planner

\* incrs as the PR walk left it: the sizes of the walk and the Pr entries.
WalkIncrs ==
  [p \in DOMAIN incrs |->
     [size |-> WalkSize(p),
      changelog |-> SelectSeq(incrs[p].changelog, LAMBDA e : e.tag = "Pr")]]

\* handle_deps run on the same input with the hash maps iterated in one
\* fixed order.
ReferenceDeps ==
  HandleDepsRun(
    [dependents |->
       [u \in {x \in CurrentIds : \E d \in CurrentIds : x \in DOMAIN current.depends[d]} |->
          [d \in {y \in CurrentIds : u \in DOMAIN current.depends[y]} |->
             current.depends[d][u]]],
     incrs |-> WalkIncrs,
     chain_writes |-> <<>>,
     queue |-> SelectSeq(current.projects, LAMBDA p : DOMAIN current.depends[p] = {}),
     dequeued |-> <<>>])

\* The sizes and the sorted changelogs of two runs of handle_deps agree.
SameIncrs(incrs1, incrs2) ==
  /\ DOMAIN incrs1 = DOMAIN incrs2
  /\ \A p \in DOMAIN incrs1 :
       /\ incrs1[p].size = incrs2[p].size
       /\ SortAndDedup(incrs1[p].changelog) = SortAndDedup(incrs2[p].changelog)

\* C19 (Determinism): whatever order the hash maps are iterated in, handle_deps
\* returns the chain_writes, in their order, and the sizes and (once sorted)
\* changelogs that the run in the fixed order returns on the same input.
C19_Determinism ==
  pc = "sort" =>
    /\ chain_writes = ReferenceDeps.chain_writes
    /\ SameIncrs(incrs, ReferenceDeps.incrs)

\* ---------------------------------------------- properties of failed_commits

\* C20 (Failed-commit disjointness): a commit of info.failed_commits has size
\* Failure for a project of the current configuration, and every LoggedCommit
\* of it, in the PR under walk and in the changelogs, has size Failure.
C20_FailedDisjoint ==
  \A oid \in failed_commits :
    /\ \E p \in CurrentIds : is_failure(ProjectSize(current.sizes[p], oid[1]))
    /\ \A p \in ProjectIds :
         \A c \in LoggedCommitsOf(p) : c.oid = oid => is_failure(c.size)

\* All projects of the current configuration have the same size rule.
UniformSizes ==
  \A p, q \in CurrentIds : current.sizes[p] = current.sizes[q]

\* With one size rule for all projects the failed commits are disjoint from
\* the commits logged with another size.
UniformFailedDisjoint == UniformSizes => C20_FailedDisjoint

\* ------------------------------------------- the order of handle_deps

\* The size incrs holds for a project: Empty without an entry.
SizeOf(id) == IF id \in DOMAIN incrs THEN incrs[id].size ELSE "Empty"

\* Every project dequeued so far came after all the projects it depends on.
UpstreamsFirst ==
  \A j \in DOMAIN dequeued :
    \A u \in DOMAIN current.depends[dequeued[j]] :
      \E i \in 1..(j - 1) : dequeued[i] = u

\* In chain_writes every pair (x, u) precedes every pair (u, d).
ChainOrdered ==
  \A i, j \in DOMAIN chain_writes :
    chain_writes[i][2] = chain_writes[j][1] => i < j

\* When handle_deps has returned, every downstream has at least the size its
\* edge converts from the final size of the upstream, and a bump of A reaches
\* C along A -> B -> C.
Propagated ==
  pc = "sort" =>
    /\ \A d \in CurrentIds :
         \A u \in DOMAIN current.depends[d] :
           SizeRank(SizeOf(d)) >= SizeRank(Convert(current.depends[d][u], SizeOf(u)))
    /\ \A A, B, C \in CurrentIds :
         (A \in DOMAIN current.depends[B] /\ B \in DOMAIN current.depends[C])
         => SizeRank(SizeOf(C)) >=
              SizeRank(Convert(current.depends[C][B],
                               Convert(current.depends[B][A], WalkSize(A))))

\* C21 (Topological propagation): on a depends graph without a cycle,
\* handle_deps dequeues a project only after every project it depends on, in
\* chain_writes every pair (x, u) precedes every pair (u, d), the size of a
\* project does not change once it is dequeued (the size converted along an
\* edge is the upstream's final size), and a bump propagates along chains.
C21_Topological ==
  /\ [](Acyclic => UpstreamsFirst /\ ChainOrdered /\ Propagated)
  /\ [][Acyclic => \A u \in Range(dequeued') : SizeOf(u)' = SizeOf(u)]_vars

\* handle_deps has returned on the graph 1 -> 2 -> 3 with 1 -> 3: the Minor of
\* project 1 has reached project 3, which the walk left Empty, through
\* project 2.
C21_Witness ==
  /\ pc = "sort"
  /\ DOMAIN current.depends[1] = {}
  /\ DOMAIN current.depends[2] = {1}
  /\ DOMAIN current.depends[3] = {1, 2}
  /\ current.depends[3][1] = "minor_to_patch"
  /\ current.depends[3][2] = "match"
  /\ current.depends[2][1] = "match"
  /\ dequeued = <<1, 2, 3>>
  /\ WalkSize(1) = "Minor" /\ WalkSize(2) = "Empty" /\ WalkSize(3) = "Empty"
  /\ SizeOf(3) = "Minor"

\* ------------------------------------------------- sizes of the PR walk

\* The greatest size of a set of sizes: Empty when there is none.
Greatest(S) ==
  IF S = {} THEN "Empty"
  ELSE CHOOSE s \in S : \A t \in S : SizeRank(t) <= SizeRank(s)

\* The sizes of the applying commits of a LoggedPr.
ApplyingSizes(logged_pr) == {c.size : c \in {x \in Range(logged_pr.commits) : x.applies}}

\* The changelog of a project, empty when incrs has no entry for it.
ChangelogOf(m, p) == IF p \in DOMAIN m THEN m[p].changelog ELSE <<>>

\* C22 (Max-wins sizing): before handle_deps, the size of a project in incrs
\* is the greatest size of the applying commits of the PRs walked (Empty when
\* there is none), every entry of its changelog is the Pr entry of a different
\* PR with an applying commit and carries that PR's greatest applying size; and
\* finish_pr appends exactly one Pr entry to the changelog of each project the
\* PR has an applying commit for, and none to the others.
C22_MaxWins ==
  /\ [](pc \in {"prs", "commits", "files"} =>
          \A p \in DOMAIN incrs :
            LET changelog == incrs[p].changelog
            IN /\ incrs[p].size =
                    Greatest(UNION {ApplyingSizes(changelog[i].pr) : i \in DOMAIN changelog})
               /\ \A i \in DOMAIN changelog :
                    /\ changelog[i].tag = "Pr"
                    /\ ApplyingSizes(changelog[i].pr) # {}
                    /\ changelog[i].size = Greatest(ApplyingSizes(changelog[i].pr))
                    /\ changelog[i].pr.number \in FinishedPrs
                    /\ \A j \in DOMAIN changelog :
                         changelog[j].pr.number = changelog[i].pr.number => i = j)
  /\ [][(pc = "commits" /\ pc' = "prs") =>
          \A p \in DOMAIN on_pr_sizes :
            ChangelogOf(incrs', p) =
              IF ApplyingSizes(on_pr_sizes[p]) # {}
              THEN Append(ChangelogOf(incrs, p),
                          PrEntry(on_pr_sizes[p], Greatest(ApplyingSizes(on_pr_sizes[p]))))
              ELSE ChangelogOf(incrs, p)]_vars

\* Two PRs have been walked for a project: the first has two applying commits,
\* a Patch and a Minor, the second a Patch alone; the project is Minor.
C22_Witness ==
  /\ pc = "prs"
  /\ \E p \in DOMAIN incrs :
       /\ Len(incrs[p].changelog) = 2
       /\ ApplyingSizes(incrs[p].changelog[1].pr) = {"Patch", "Minor"}
       /\ incrs[p].changelog[1].pr.commits[1].size = "Patch"
       /\ incrs[p].changelog[1].size = "Minor"
       /\ incrs[p].changelog[2].size = "Patch"
       /\ incrs[p].size = "Minor"

\* ------------------------------------------ the order of the changelogs

Holders(changelog, oid) ==
  {i \in DOMAIN changelog :
     changelog[i].tag = "Pr" /\ \E c \in Range(changelog[i].pr.commits) : c.oid = oid}

\* C24 (Duplicate marking across PRs): after sort_and_dedup, of the
\* occurrences of one commit oid in the Pr entries of a changelog, the one in
\* the PR of the highest discovery_order has duplicate = false and every other
\* has duplicate = true; and the size of every Pr entry is the greatest size of
\* its included commits, Empty when it has none.
C24_DuplicateMarking ==
  pc = "built" =>
    \A p \in DOMAIN incrs :
      LET changelog == incrs[p].changelog
      IN \A i \in DOMAIN changelog :
           changelog[i].tag = "Pr" =>
             /\ \A c \in Range(changelog[i].pr.commits) :
                  c.duplicate =
                    (\E k \in Holders(changelog, c.oid) :
                       changelog[k].pr.discovery_order > changelog[i].pr.discovery_order)
             /\ changelog[i].size =
                  Greatest({c.size : c \in {x \in Range(changelog[i].pr.commits) :
                                              included(x)}})

\* Three PRs hold the same applying commit, a Minor: it is included in the
\* newest PR alone; the second PR has a Patch of its own and is a Patch, the
\* oldest PR has nothing else and is Empty.
C24_Witness ==
  /\ pc = "built"
  /\ \E p \in DOMAIN incrs :
       LET changelog == incrs[p].changelog
       IN /\ Len(changelog) = 3
          /\ \A i \in 1..3 : changelog[i].tag = "Pr" /\ changelog[i].pr.commits[1].size = "Minor"
          /\ \A i, j \in 1..3 : changelog[i].pr.commits[1].oid = changelog[j].pr.commits[1].oid
          /\ included(changelog[1].pr.commits[1]) /\ changelog[1].size = "Minor"
          /\ changelog[2].pr.commits[1].duplicate
          /\ Len(changelog[2].pr.commits) = 2 /\ changelog[2].size = "Patch"
          /\ changelog[3].pr.commits[1].applies /\ changelog[3].pr.commits[1].duplicate
          /\ Len(changelog[3].pr.commits) = 1 /\ changelog[3].size = "Empty"

\* ------------------------------------------- soundness of chain_writes

\* The elements of a sequence are all different.
Distinct(seq) == \A i, j \in DOMAIN seq : seq[i] = seq[j] => i = j

\* C25 (Chain-write soundness): every pair (upstream, downstream) of
\* chain_writes is an edge of the depends maps of the current configuration
\* between two of its projects, no pair is in chain_writes twice, a changelog
\* has at most one Dep entry for an upstream, and no project is dequeued twice.
C25_ChainWriteSound ==
  /\ \A i \in DOMAIN chain_writes :
       /\ chain_writes[i][1] \in CurrentIds
       /\ chain_writes[i][2] \in CurrentIds
       /\ chain_writes[i][1] \in DOMAIN current.depends[chain_writes[i][2]]
  /\ Distinct(chain_writes)
  /\ \A p \in DOMAIN incrs :
       Distinct(SelectSeq(incrs[p].changelog, LAMBDA e : e.tag = "Dep"))
  /\ Distinct(dequeued)

\* handle_deps has returned on the graph 1 -> 2 -> 3 with 1 -> 3: each of the
\* three projects was dequeued, each of the three edges is in chain_writes, and
\* project 3 has the Dep entries of both of its upstreams.
C25_Witness ==
  /\ pc = "sort"
  /\ DOMAIN current.depends[2] = {1}
  /\ DOMAIN current.depends[3] = {1, 2}
  /\ Len(dequeued) = 3
  /\ Range(chain_writes) = {<<1, 2>>, <<1, 3>>, <<2, 3>>}
  /\ 3 \in DOMAIN incrs
  /\ Len(SelectSeq(incrs[3].changelog, LAMBDA e : e.tag = "Dep")) = 2

\* ------------------------------------------------ properties of the tags

\* The names of the tags of a project on a commit.
TagsOn(id, oid) == {t.name : t \in {x \in ProjectTags(id) : x.oid = oid}}

\* The places in the walk of the commits that carry a tag of the project.
TaggedAt(id) == {i \in DOMAIN line : TagsOn(id, line[i].id) # {}}

\* The first of them in walk order.
FirstTagged(id) == CHOOSE i \in TaggedAt(id) : \A j \in TaggedAt(id) : i <= j

\* The version strings of a set of tags that are three integers.
Parsable(tag_set) ==
  {v \in {SubSeq(t, RFind(t, "-") + 2, Len(t)) : t \in tag_set} : Parts(v) # None}

\* The triple a is above the triple b.
Above(a, b) ==
  \/ a[1] > b[1]
  \/ a[1] = b[1] /\ a[2] > b[2]
  \/ a[1] = b[1] /\ a[2] = b[2] /\ a[3] > b[3]

\* C26 (Old-tag index): when find_old_tags has returned, the current version
\* of a project is a highest parsable version among its tags on the first
\* commit of the walk that carries a tag of it; a project with no tagged commit
\* in the walk has the version of the prev-tag annotation, and none when the
\* annotation has none for it; and a version once recorded for a project is
\* not changed by the commits visited later nor by fill_from_prev.
C26_OldTagIndex ==
  /\ [](pc = "old_tags" =>
          \A id \in CurrentIds :
            IF TaggedAt(id) # {}
            THEN /\ id \in DOMAIN old_current
                 /\ old_current[id] \in Parsable(TagsOn(id, line[FirstTagged(id)].id))
                 /\ \A w \in Parsable(TagsOn(id, line[FirstTagged(id)].id)) :
                      ~Above(Unwrap(Parts(w)), Unwrap(Parts(old_current[id])))
            ELSE IF id \in DOMAIN old_prev
                 THEN id \in DOMAIN old_current /\ old_current[id] = old_prev[id]
                 ELSE id \notin DOMAIN old_current)
  /\ [][\A id \in DOMAIN old_current :
          id \in DOMAIN old_current' /\ old_current'[id] = old_current[id]]_vars

\* The walk of three commits has returned: HEAD carries no tag of the first
\* project, the second commit carries a-v1.0.0, a-v1.2.0 and the unparsable
\* a-v1.x, the third a-v2.0.0; the project is at 1.2.0. The second project
\* has no tag and is at the version of the annotation.
C26_Witness ==
  /\ pc = "old_tags"
  /\ Len(line) = 3
  /\ current.tag_majors[1] = None
  /\ TagsOn(1, line[1].id) = {}
  /\ TagsOn(1, line[2].id) =
       {<<"a", "-", "v", "1", ".", "0", ".", "0">>, <<"a", "-", "v", "1", ".", "2", ".", "0">>,
        <<"a", "-", "v", "1", ".", "x">>}
  /\ TagsOn(1, line[3].id) = {<<"a", "-", "v", "2", ".", "0", ".", "0">>}
  /\ old_current[1] = <<"1", ".", "2", ".", "0">>
  /\ TaggedAt(2) = {}
  /\ 2 \in DOMAIN old_prev
  /\ old_current[2] = old_prev[2]

\* C27 (Unparsable tags are dropped): find_old_tags does not fail on the tags
\* of the repository, whatever their version parts, and the current version it
\* returns for a project is the version of a parsable tag of the project or
\* the version of the prev-tag annotation.
C27_UnparsableDropped ==
  /\ pc # "panic"
  /\ pc = "old_tags" =>
       \A id \in DOMAIN old_current :
         \/ old_current[id] \in Parsable({t.name : t \in ProjectTags(id)})
         \/ id \in DOMAIN old_prev /\ old_current[id] = old_prev[id]

\* Every commit of the walk that carries a tag of a project carries a parsable
\* one, and no tag of a walked commit ends with the '-' its version follows.
ParsableOnEveryCommit ==
  \A id \in CurrentIds :
    \A i \in TaggedAt(id) :
      /\ Parsable(TagsOn(id, line[i].id)) # {}
      /\ \A t \in TagsOn(id, line[i].id) : RFind(t, "-") < Len(t)

\* With a parsable tag on every tagged commit find_old_tags does not fail.
ParsableTagsDropped == ParsableOnEveryCommit => C27_UnparsableDropped

\* ---------------------------------------- properties of the last commits

\* The commit at place i of the walk touches a path that project id covered
\* in the configuration as of that commit.
Touches(i, id) ==
  /\ id \in DOMAIN line[i].snapshot
  /\ \E path \in line[i].files : path \in line[i].snapshot[id]

\* The places of the walk whose commits touch the project.
TouchedAt(id) == {i \in DOMAIN line : Touches(i, id)}

\* C28 (Last commit per project): when find_last_commits has returned, the
\* last commit of a project of the current configuration is the first commit
\* in walk order that touches a path the project covered as of that commit; a
\* project that no commit touches, or that is not in the current
\* configuration, has none; and no step of the walk overwrites a last commit.
C28_LastCommit ==
  /\ [](pc = "last_commits" =>
          \A id \in ProjectIds :
            IF id \in CurrentIds /\ TouchedAt(id) # {}
            THEN /\ id \in DOMAIN last_commits
                 /\ \E i \in TouchedAt(id) :
                      /\ \A j \in TouchedAt(id) : i <= j
                      /\ last_commits[id] = line[i].id
            ELSE id \notin DOMAIN last_commits)
  /\ [][\A id \in DOMAIN last_commits :
          id \in DOMAIN last_commits' /\ last_commits'[id] = last_commits[id]]_vars

\* The walk of three commits has returned: HEAD touches a path of project 2
\* alone, which is no project today; the second and the third commit touch
\* project 1, whose last commit is the second; project 2 has none.
C28_Witness ==
  /\ pc = "last_commits"
  /\ Len(line) = 3
  /\ CurrentIds = {1}
  /\ TouchedAt(1) = {2, 3}
  /\ TouchedAt(2) = {1}
  /\ last_commits = (1 :> line[2].id)

\* --------------------------------------- propagation without an order

RECURSIVE Settle(_, _)
\* The sizes after n rounds in which every project takes the greatest of its
\* own size and the converted sizes of its upstreams.
Settle(sizes, n) ==
  IF n = 0 THEN sizes
  ELSE Settle([d \in DOMAIN sizes |->
                 Greatest({sizes[d]} \cup
                          {Convert(current.depends[d][u], sizes[u]) :
                             u \in DOMAIN current.depends[d]})],
              n - 1)

\* The sizes the depends graph gives the projects from the sizes of the walk:
\* on a graph without a cycle the rounds settle within as many rounds as there
\* are projects.
SettledSizes ==
  Settle([id \in CurrentIds |-> WalkSize(id)], Cardinality(CurrentIds))

\* The Dep entries of a changelog.
DepEntries(id) ==
  IF id \in DOMAIN incrs THEN {e \in Range(incrs[id].changelog) : e.tag = "Dep"} ELSE {}

\* C29 (Propagation is order-independent): on a depends graph without a cycle,
\* when handle_deps has returned, whatever the order of the queue seeds and of
\* the dependents of a project, the size of every project is the settled size,
\* the pairs of chain_writes are the edges of the graph, and the Dep entries of
\* a changelog are those of the upstreams whose settled size converts to more
\* than Empty: all three are functions of the graph and of the walk alone.
C29_OrderIndependent ==
  (pc = "sort" /\ Acyclic) =>
    /\ \A id \in CurrentIds : SizeOf(id) = SettledSizes[id]
    /\ Range(chain_writes) =
         {e \in CurrentIds \X CurrentIds : e[1] \in DOMAIN current.depends[e[2]]}
    /\ \A d \in CurrentIds :
         DepEntries(d) =
           {DepEntry(u, ProjectName(u)) :
              u \in {x \in DOMAIN current.depends[d] :
                       SizeRank(Convert(current.depends[d][x], SettledSizes[x]))
                         > SizeRank("Empty")}}

\* handle_deps has returned on the graph in which 3 depends on 1 and on 2, the
\* projects listed from 3 to 1: the seed 2, a Patch, was dequeued before the
\* seed 1, a Minor, and project 3 is Minor with the Dep entries of both.
C29_Witness ==
  /\ pc = "sort"
  /\ current.projects = <<3, 2, 1>>
  /\ DOMAIN current.depends[1] = {} /\ DOMAIN current.depends[2] = {}
  /\ current.depends[3] = (1 :> "match") @@ (2 :> "match")
  /\ WalkSize(1) = "Minor" /\ WalkSize(2) = "Patch" /\ WalkSize(3) = "Empty"
  /\ dequeued = <<2, 1, 3>>
  /\ chain_writes = <<<<2, 3>>, <<1, 3>>>>
  /\ SizeOf(3) = "Minor"
  /\ Cardinality(DepEntries(3)) = 2

\* ------------------------------------------- the protocol of the builder

\* Every provisional LoggedPr holds a LoggedCommit of the commit under walk.
CommitLogged ==
  /\ on_commit # None
  /\ \A p \in DOMAIN on_pr_sizes :
       \E c \in Range(on_pr_sizes[p].commits) : c.oid = Unwrap(on_commit).id

\* C30 (Builder protocol safety): under the call order of build_plan, when
\* start_file runs the Slicer is sliced and every project's provisional
\* LoggedPr holds a LoggedCommit of the current commit, so the lookup does not
\* fail; a step of start_file changes nothing but the applies flag of commits
\* of that oid in the provisional LoggedPrs of the PR under walk, and never
\* a changelog of incrs; and when finish_pr runs the ineffective reservoir of
\* start_pr is there.
C30_ProtocolSafe ==
  /\ [](pc = "files" => prev # None /\ CommitLogged)
  /\ [](pc \in {"commits", "files"} =>
          /\ on_ineffective # None
          /\ DOMAIN on_pr_sizes = CurrentIds
          /\ \A p \in DOMAIN on_pr_sizes :
               on_pr_sizes[p].number = Unwrap(on_ineffective).number)
  /\ [][(pc = "files" /\ files_left' # files_left) =>
          /\ incrs' = incrs
          /\ ineffective' = ineffective
          /\ DOMAIN on_pr_sizes' = DOMAIN on_pr_sizes
          /\ \A p \in DOMAIN on_pr_sizes :
               /\ on_pr_sizes'[p].number = on_pr_sizes[p].number
               /\ Len(on_pr_sizes'[p].commits) = Len(on_pr_sizes[p].commits)
               /\ \A i \in DOMAIN on_pr_sizes[p].commits :
                    LET before == on_pr_sizes[p].commits[i]
                        after == on_pr_sizes'[p].commits[i]
                    IN \/ after = before
                       \/ /\ after = [before EXCEPT !.applies = TRUE]
                          /\ before.oid = Unwrap(on_commit).id]_vars

\* The second PR is under walk with the first in a changelog: start_file has
\* set applies on the one commit of the second PR, for the first project and
\* not for the second.
C30_Witness ==
  /\ pc = "files"
  /\ files_left = <<>>
  /\ walked = {1, 2}
  /\ CurrentIds = {1, 2}
  /\ 1 \in DOMAIN incrs /\ Len(incrs[1].changelog) = 1
  /\ Len(on_pr_sizes[1].commits) = 1 /\ Len(on_pr_sizes[2].commits) = 1
  /\ on_pr_sizes[1].commits[1].applies
  /\ ~on_pr_sizes[2].commits[1].applies
  /\ on_pr_sizes[1].commits[1].oid = Unwrap(on_commit).id

\* ------------------------- resume and abort without a usable pause-file

\* The pause-file is missing, or it is there and does not parse.
Unusable == pause_file = None \/ ~Deserializable(Unwrap(pause_file))

\* C31 (Resume and abort without usable pause state): with the pause-file
\* missing, resume and abort each return an error and leave the working tree,
\* the VCS commits and the tags as they are; with a pause-file that does not
\* deserialize, resume returns an error, makes no commit and no tag and leaves
\* the pause-file in place. resume goes on to its commit only from a
\* pause-file that parsed, a VCS commit or a tag is made only by release or by
\* a resume that has loaded its state, and outside abort the pause-file is
\* deleted only in the step that loaded it.
C31_NoUsablePauseState ==
  /\ [](/\ error = Some("deserialize") => pc = "error" /\ pause_file # None /\ Unusable
        /\ pc = "resuming" => commit_state # None)
  /\ [][(resume_load \/ abort) /\ pause_file = None =>
          /\ pc' = "error"
          /\ error' = Some("missing-pause-file")
          /\ UNCHANGED <<tree, vcs_commits, tags, pause_file, commit_state>>]_vars
  /\ [][resume_load /\ pause_file # None /\ Unusable =>
          /\ pc' = "error"
          /\ error' = Some("deserialize")
          /\ UNCHANGED <<tree, vcs_commits, tags, pause_file, commit_state>>]_vars
  /\ [][pc # "resuming" /\ pc' = "resuming" => ~Unusable]_vars
  /\ [][vcs_commits' # vcs_commits \/ tags' # tags => pc \in {"projects", "resuming"}]_vars
  /\ [][pause_file # None /\ pause_file' = None /\ pc' # "aborted" =>
          /\ ~Unusable
          /\ pc' = "resuming"
          /\ commit_state' = Some(Deserialize(Unwrap(pause_file)))]_vars

\* resume has returned its error on the pause-file of a paused release that
\* was cut short: the written files are in the working tree, the half of the
\* pause-file is still there, and there is no VCS commit and no tag.
C31_Witness ==
  /\ pc = "error"
  /\ error = Some("deserialize")
  /\ pause_file # None /\ Len(Unwrap(pause_file)) = 1
  /\ tree # {}
  /\ vcs_commits = <<>> /\ tags = {}
====
